---- MODULE Spec2Model ----
(***************************************************************************)
(* Blade Element Momentum solver of the wind-turbine package:              *)
(* BladeElement / Blade / BladeElementTheory / OperationalCondition /      *)
(* PerformanceAnalyzer.                                                    *)
(*                                                                         *)
(* Numbers.  The program computes in IEEE doubles (numpy float64).  The    *)
(* model computes in fixed point: a real x is the integer x * Scale.       *)
(* The three non-finite doubles and Python's None are kept as values of    *)
(* their own, and every arithmetic operator propagates them the way numpy  *)
(* does (x/0 is +-inf or nan with a warning, never an exception).          *)
(* Angles are radians * Scale; sin, cos and arctan2 are integer            *)
(* approximations of the numpy functions with the same zeros, signs and    *)
(* quadrants.                                                              *)
(***************************************************************************)
EXTENDS Integers, Sequences, FiniteSets, TLC

\* ------------------------------------------------------------------------
\* float64 values
\* ------------------------------------------------------------------------
Scale == 1000

PosInf == 1000000000
NegInf == -1000000000
NaN == 1000000001
None == 1000000002

\* Largest finite magnitude: a result beyond it overflows to an infinity, as a
\* double beyond its range does.  MaxRaw is the largest product formed
\* before rescaling.
MaxFloat == 2000000

MaxRaw == MaxFloat * Scale

IsNonFinite(x) == x \in {PosInf, NegInf, NaN}

\* A finite float (not None, not nan, not +-inf).
IsFinite(x) == x \notin {PosInf, NegInf, NaN, None}

Abs(x) == IF x < 0 THEN -x ELSE x

Sign(x) == IF x < 0 THEN -1 ELSE IF x > 0 THEN 1 ELSE 0

InfOf(s) == IF s < 0 THEN NegInf ELSE PosInf

\* Integer division rounding toward zero.
QuotZ(x, y) == Sign(x) * Sign(y) * (Abs(x) \div Abs(y))

\* A finite result, or the infinity it overflows to.
Ranged(v) == IF Abs(v) > MaxFloat THEN InfOf(v) ELSE v

FNeg(x) ==
  IF x = NaN THEN NaN
  ELSE IF x = PosInf THEN NegInf
  ELSE IF x = NegInf THEN PosInf
  ELSE -x

FAdd(x, y) ==
  IF x = NaN \/ y = NaN THEN NaN
  ELSE IF IsNonFinite(x) /\ IsNonFinite(y) THEN (IF x = y THEN x ELSE NaN)
  ELSE IF IsNonFinite(x) THEN x
  ELSE IF IsNonFinite(y) THEN y
  ELSE Ranged(x + y)

FSub(x, y) == FAdd(x, FNeg(y))

FMul(x, y) ==
  IF x = NaN \/ y = NaN THEN NaN
  ELSE IF IsNonFinite(x) \/ IsNonFinite(y)
       THEN (IF x = 0 \/ y = 0 THEN NaN ELSE InfOf(Sign(x) * Sign(y)))
  ELSE IF x = 0 \/ y = 0 THEN 0
  ELSE IF Abs(x) > MaxRaw \div Abs(y) THEN InfOf(Sign(x) * Sign(y))
  ELSE QuotZ(x * y, Scale)

FDiv(x, y) ==
  IF x = NaN \/ y = NaN THEN NaN
  ELSE IF IsNonFinite(x) /\ IsNonFinite(y) THEN NaN
  ELSE IF IsNonFinite(x) THEN InfOf(Sign(x) * (IF y < 0 THEN -1 ELSE 1))
  ELSE IF IsNonFinite(y) THEN 0
  ELSE IF y = 0 THEN (IF x = 0 THEN NaN ELSE InfOf(Sign(x)))
  ELSE Ranged(QuotZ(x * Scale, y))

\* abs(x) of a float.
FAbs(x) ==
  IF x = NaN THEN NaN
  ELSE IF IsNonFinite(x) THEN PosInf
  ELSE Abs(x)

\* x < y on floats: every comparison with nan is False.
FLess(x, y) ==
  IF x = NaN \/ y = NaN THEN FALSE
  ELSE IF x = y THEN FALSE
  ELSE IF x = NegInf \/ y = PosInf THEN TRUE
  ELSE IF x = PosInf \/ y = NegInf THEN FALSE
  ELSE x < y

\* The float of an integer literal of the source (4, 1, 2, ...).
Lit(n) == n * Scale

\* 0.5
Half == Scale \div 2

\* ------------------------------------------------------------------------
\* numpy functions
\* ------------------------------------------------------------------------
\* np.pi
Pi == 3142

HalfPi == 1571

\* sin on [0, pi] (Bhaskara's rational approximation; exact at 0, pi/2, pi).
SinPos(x) ==
  LET p == x * (Pi - x)
  IN  (16 * p) \div ((5 * Pi * Pi - 4 * p) \div Scale)

\* An angle reduced to (-pi, pi].
RECURSIVE WrapAngle(_)
WrapAngle(x) ==
  IF x > Pi THEN WrapAngle(x - 2 * Pi)
  ELSE IF x <= -Pi THEN WrapAngle(x + 2 * Pi)
  ELSE x

\* np.sin
Sin(x) ==
  IF ~IsFinite(x) THEN NaN
  ELSE LET w == WrapAngle(x)
       IN  IF w >= 0 THEN SinPos(w) ELSE -SinPos(-w)

\* np.cos
Cos(x) == IF ~IsFinite(x) THEN NaN ELSE Sin(WrapAngle(x) + HalfPi)

\* arctan of a ratio t/Scale in [0, 1].
AtanUnit(t) == (t * (785 + (273 * (Scale - t)) \div Scale)) \div Scale

\* arctan2 of two finite, non-negative numbers, not both zero: in [0, pi/2].
AtanQuadrant(y, x) ==
  IF y <= x THEN AtanUnit((y * Scale) \div x)
  ELSE HalfPi - AtanUnit((x * Scale) \div y)

\* np.arctan2(y, x); arctan2(0, 0) = 0.  An infinite operand dominates a
\* finite one; two infinite operands give the diagonal.
Atan2(y, x) ==
  IF y = NaN \/ x = NaN THEN NaN
  ELSE LET inf == IsNonFinite(y) \/ IsNonFinite(x)
           my  == IF inf THEN (IF IsNonFinite(y) THEN 1 ELSE 0) ELSE Abs(y)
           mx  == IF inf THEN (IF IsNonFinite(x) THEN 1 ELSE 0) ELSE Abs(x)
           q   == IF my = 0 THEN 0
                  ELSE IF mx = 0 THEN HalfPi
                  ELSE AtanQuadrant(my, mx)
       IN  IF Sign(y) = 0 THEN (IF Sign(x) < 0 THEN Pi ELSE 0)
           ELSE IF Sign(x) >= 0 THEN Sign(y) * q
           ELSE Sign(y) * (Pi - q)

\* x * m / d, formed without an intermediate beyond the integer range.
MulDiv(x, m, d) ==
  LET q == QuotZ(x, d)
  IN  q * m + QuotZ((x - q * d) * m, d)

\* np.degrees
Degrees(x) == IF ~IsFinite(x) THEN x ELSE Ranged(MulDiv(x, 180 * Scale, Pi))

\* np.radians
Radians(d) == IF ~IsFinite(d) THEN d ELSE MulDiv(d, Pi, 180 * Scale)

\* np.interp(x, xp, fp): linear between samples, the end sample's value outside
\* the table, nan for a nan query.
RECURSIVE InterpFrom(_, _, _, _)
InterpFrom(x, xp, fp, i) ==
  IF i >= Len(xp) THEN fp[Len(xp)]
  ELSE IF FLess(x, xp[i + 1])
       THEN fp[i] + QuotZ((fp[i + 1] - fp[i]) * (x - xp[i]), xp[i + 1] - xp[i])
       ELSE InterpFrom(x, xp, fp, i + 1)

\* An interpolation that carries the first segment's line on below the table.
InterpExtrapolating(x, xp, fp) ==
  IF x = NaN THEN NaN
  ELSE IF x = PosInf \/ ~FLess(x, xp[Len(xp)]) THEN fp[Len(xp)]
  ELSE IF x = NegInf THEN fp[1]
  ELSE IF FLess(x, xp[1])
       THEN fp[1] + QuotZ((fp[2] - fp[1]) * (x - xp[1]), xp[2] - xp[1])
  ELSE InterpFrom(x, xp, fp, 1)

Interp(x, xp, fp) ==
  IF x = NaN THEN NaN
  ELSE IF x = NegInf \/ ~FLess(xp[1], x) THEN fp[1]
  ELSE IF x = PosInf \/ ~FLess(x, xp[Len(xp)]) THEN fp[Len(xp)]
  ELSE InterpFrom(x, xp, fp, 1)

\* ------------------------------------------------------------------------
\* Airfoil polars, operational characteristics, blade files
\* ------------------------------------------------------------------------
AeroCoefficients(alpha, cl, cd) == [alpha |-> alpha, cl |-> cl, cd |-> cd]

\* Airfoil.aero_data of the airfoils of the airfoil map.  Airfoil 3 was
\* constructed without polar samples (aero_data == []).
AirfoilMap ==
  << << AeroCoefficients(0, 500, 10), AeroCoefficients(5000, 700, 20),
        AeroCoefficients(10000, 900, 30), AeroCoefficients(15000, 1100, 40) >>,
     << AeroCoefficients(-10000, -400, 0), AeroCoefficients(0, 0, 0),
        AeroCoefficients(20000, 1200, 100) >>,
     << >> >>

\* element.airfoil of a station whose airfoil id is not in the airfoil map.
NoAirfoil == 0

\* `if self.airfoil and self.airfoil.aero_data`
HasAeroData(el) == el.airfoil # NoAirfoil /\ Len(AirfoilMap[el.airfoil]) > 0

OperationalCharacteristic(wind_speed, pitch, rpm) ==
  [wind_speed |-> wind_speed, pitch |-> pitch, rpm |-> rpm]

\* blade.operational_characteristics.characteristics
Characteristics ==
  << OperationalCharacteristic(1000, 0, 6000),
     OperationalCharacteristic(2000, 2000, 8000),
     OperationalCharacteristic(3000, 4000, 10000) >>

\* BladeElement(r, twist, chord, airfoil_id, airfoil): every derived and output
\* field starts as None.
BladeElement(r, twist, chord, airfoil) ==
  [r |-> r, twist |-> twist, chord |-> chord, airfoil |-> airfoil,
   a |-> None, a_prime |-> None, Cn |-> None, Ct |-> None, cl |-> None,
   cd |-> None, alpha |-> None, phi |-> None, dr |-> None, dT |-> None,
   dM |-> None, L |-> None, D |-> None, Fn |-> None, Ft |-> None,
   V_rel |-> None, solidity |-> None]

\* The element lists Blade(elements=...) and Blade.load_from_file build: the
\* rows of a blade file in file order, each with the airfoil the map gives.
BladeFiles ==
  << << BladeElement(1000, 15000, 500, 1), BladeElement(2000, 10000, 600, 1),
        BladeElement(3000, 5000, 700, 2) >>,
     << BladeElement(1000, 10000, 500, 2), BladeElement(2000, 0, 600, NoAirfoil) >>,
     << BladeElement(2000, 5000, 600, 1), BladeElement(3000, 0, 700, 3) >>,
     << >> >>

\* ------------------------------------------------------------------------
\* OperationalCondition
\* ------------------------------------------------------------------------
\* rho = 1.225 kg/m^3
Rho == 1225

\* OperationalCondition(wind_speed, rho, num_blades).calculate_angular_velocity(blade):
\* rpm interpolated in the characteristics, omega = rpm * 2 * pi / 60.
CalculateAngularVelocity(wind_speed, rho, num_blades) ==
  LET wind_speeds == [i \in 1..Len(Characteristics) |-> Characteristics[i].wind_speed]
      rpms        == [i \in 1..Len(Characteristics) |-> Characteristics[i].rpm]
      rpm         == Interp(wind_speed, wind_speeds, rpms)
  IN  [wind_speed |-> wind_speed, rho |-> rho, num_blades |-> num_blades,
       omega |-> FDiv(FMul(FMul(rpm, Lit(2)), Pi), Lit(60))]

\* OperationalCondition(wind_speed, rho, num_blades): the attributes __init__
\* creates.
OperationalCondition(wind_speed, rho, num_blades) ==
  [wind_speed |-> wind_speed, rho |-> rho, num_blades |-> num_blades,
   rmp |-> None, omega |-> None]

\* np.interp(self.wind_speed, wind_speeds, rpms) of calculate_angular_velocity.
InterpolatedRpm(wind_speed) ==
  Interp(wind_speed,
         [i \in 1..Len(Characteristics) |-> Characteristics[i].wind_speed],
         [i \in 1..Len(Characteristics) |-> Characteristics[i].rpm])

\* The attributes of the condition after calculate_angular_velocity: rpm is
\* created, omega assigned.
WithAngularVelocity(condition) ==
  [rpm |-> InterpolatedRpm(condition.wind_speed)]
    @@ [condition EXCEPT !.omega =
          CalculateAngularVelocity(condition.wind_speed, condition.rho,
                                   condition.num_blades).omega]

\* An OperationalCondition whose omega the caller assigned (condition.omega = ...).
ConditionWithOmega(wind_speed, rho, num_blades, omega) ==
  [wind_speed |-> wind_speed, rho |-> rho, num_blades |-> num_blades,
   omega |-> omega]

\* ------------------------------------------------------------------------
\* BladeElement: solidity and the induction-factor solve
\* ------------------------------------------------------------------------
\* The solidity without its upper limit.
UnclampedSolidity(el, op) ==
  IF el.r = 0 THEN Lit(1)
  ELSE FDiv(op.num_blades * el.chord, FMul(FMul(Lit(2), Pi), el.r))

\* The solidity of a rotor whose blade count is fixed at three.
ThreeBladeSolidity(el, op) ==
  IF el.r = 0 THEN Lit(1)
  ELSE LET solidity == FDiv(3 * el.chord, FMul(FMul(Lit(2), Pi), el.r))
       IN  IF FLess(Lit(1), solidity) THEN Lit(1) ELSE solidity

\* BladeElement.calculate_solidity: the solidity it stores and returns.
CalculateSolidity(el, op) ==
  IF el.r = 0 THEN Lit(1)
  ELSE LET solidity == FDiv(op.num_blades * el.chord, FMul(FMul(Lit(2), Pi), el.r))
       IN  IF FLess(Lit(1), solidity) THEN Lit(1) ELSE solidity

\* np.arctan2((1 - a) * wind_speed, (1 + a_prime) * omega * r)
FlowAngle(a, a_prime, op, r) ==
  Atan2(FMul(FSub(Lit(1), a), op.wind_speed),
        FMul(FMul(FAdd(Lit(1), a_prime), op.omega), r))

\* The pitch in radians interpolated in the characteristics at the wind speed.
PitchRad(op) ==
  LET wind_speeds == [i \in 1..Len(Characteristics) |-> Characteristics[i].wind_speed]
      pitches     == [i \in 1..Len(Characteristics) |-> Radians(Characteristics[i].pitch)]
  IN  Interp(op.wind_speed, wind_speeds, pitches)

\* BladeElement.compute_induction_factors, lines 178-202: from a flow angle,
\* the angle of attack, the interpolated Cl and Cd and the force coefficients.
AeroCoefficientsAt(el, op, phi) ==
  LET twist_rad == Radians(el.twist)
      alpha     == FSub(phi, FAdd(PitchRad(op), twist_rad))
      aero_data == AirfoilMap[el.airfoil]
      alphas    == [i \in 1..Len(aero_data) |-> aero_data[i].alpha]
      cls       == [i \in 1..Len(aero_data) |-> aero_data[i].cl]
      cds       == [i \in 1..Len(aero_data) |-> aero_data[i].cd]
      Cl        == Interp(Degrees(alpha), alphas, cls)
      Cd        == Interp(Degrees(alpha), alphas, cds)
  IN  [alpha |-> alpha, Cl |-> Cl, Cd |-> Cd,
       Cn |-> FAdd(FMul(Cl, Cos(phi)), FMul(Cd, Sin(phi))),
       Ct |-> FSub(FMul(Cl, Sin(phi)), FMul(Cd, Cos(phi)))]

\* A solve that starts from the induction factors the element holds, when it
\* holds any, instead of the guesses.
SolveBeginFromStored(el, op, p) ==
  LET a       == IF el.a = None THEN p.a_guess ELSE el.a
      a_prime == IF el.a_prime = None THEN p.a_prime_guess ELSE el.a_prime
      phi     == FlowAngle(a, a_prime, op, el.r)
      aero    == AeroCoefficientsAt(el, op, phi)
  IN  [a |-> a, a_prime |-> a_prime, phi |-> phi,
       alpha |-> aero.alpha, Cl |-> aero.Cl, Cd |-> aero.Cd,
       Cn |-> aero.Cn, Ct |-> aero.Ct,
       a_new |-> None, a_prime_new |-> None, it |-> 0, converged |-> FALSE]

\* The locals of compute_induction_factors when it calls
\* compute_element_induction_factors (lines 170-202).
SolveBegin(el, op, p) ==
  LET phi  == FlowAngle(p.a_guess, p.a_prime_guess, op, el.r)
      aero == AeroCoefficientsAt(el, op, phi)
  IN  [a |-> p.a_guess, a_prime |-> p.a_prime_guess, phi |-> phi,
       alpha |-> aero.alpha, Cl |-> aero.Cl, Cd |-> aero.Cd,
       Cn |-> aero.Cn, Ct |-> aero.Ct,
       a_new |-> None, a_prime_new |-> None, it |-> 0, converged |-> FALSE]

\* a_new and a_prime_new of one iteration (lines 131-133).
InductionUpdate(phi, solidity, Cn, Ct) ==
  [a_new |->
     FDiv(Lit(1),
          FAdd(FDiv(FMul(Lit(4), FMul(Sin(phi), Sin(phi))), FMul(solidity, Cn)),
               Lit(1))),
   a_prime_new |->
     FDiv(Lit(1),
          FSub(FDiv(FMul(FMul(Lit(4), Sin(phi)), Cos(phi)), FMul(solidity, Ct)),
               Lit(1)))]

\* The convergence test of lines 135-139.
Converged(a, a_prime, a_new, a_prime_new, tolerance) ==
  /\ FLess(FAbs(FSub(a, a_new)), tolerance)
  /\ FLess(FAbs(FSub(a_prime, a_prime_new)), tolerance)

\* A pass that leaves a and a_prime as they were: a loop that would return the
\* iterate before the last one when the iterations run out.
IterStepKeepsPrevious(loc, el, op, p) ==
  LET upd == InductionUpdate(FlowAngle(loc.a, loc.a_prime, op, el.r), el.solidity,
                             loc.Cn, loc.Ct)
  IN  [loc EXCEPT !.a_new = upd.a_new, !.a_prime_new = upd.a_prime_new,
                  !.it = loc.it + 1,
                  !.converged = Converged(loc.a, loc.a_prime, upd.a_new,
                                          upd.a_prime_new, p.tolerance)]

\* One pass of the loop of compute_element_induction_factors (lines 129-142):
\* phi from the current a and a_prime, the update from the Cn and Ct passed in,
\* then either break or a, a_prime = a_new, a_prime_new.
IterStep(loc, el, op, p) ==
  LET phi  == FlowAngle(loc.a, loc.a_prime, op, el.r)
      upd  == InductionUpdate(phi, el.solidity, loc.Cn, loc.Ct)
      conv == Converged(loc.a, loc.a_prime, upd.a_new, upd.a_prime_new, p.tolerance)
  IN  [loc EXCEPT !.phi = phi,
                  !.a_new = upd.a_new,
                  !.a_prime_new = upd.a_prime_new,
                  !.it = loc.it + 1,
                  !.converged = conv,
                  !.a = IF conv THEN loc.a ELSE upd.a_new,
                  !.a_prime = IF conv THEN loc.a_prime ELSE upd.a_prime_new]

\* `for _ in range(max_iterations)` is over: by break or by exhaustion.
LoopOver(loc, p) == loc.converged \/ loc.it >= p.max_iterations

\* The element after lines 217-226 stored the results of the solve.
SolveStore(el, loc, op) ==
  [el EXCEPT !.alpha = loc.alpha, !.cl = loc.Cl, !.cd = loc.Cd,
             !.a = loc.a, !.a_prime = loc.a_prime,
             !.phi = FlowAngle(loc.a, loc.a_prime, op, el.r),
             !.Cn = loc.Cn, !.Ct = loc.Ct]

\* compute_element_induction_factors run to its return.
RECURSIVE RunLoop(_, _, _, _)
RunLoop(loc, el, op, p) ==
  IF LoopOver(loc, p) THEN loc ELSE RunLoop(IterStep(loc, el, op, p), el, op, p)

\* BladeElement.compute_induction_factors as a whole: the element it leaves.
\* A station without aerodynamic data is returned as it is.
ComputeInductionFactors(el, op, p) ==
  IF HasAeroData(el)
  THEN SolveStore(el, RunLoop(SolveBegin(el, op, p), el, op, p), op)
  ELSE el

\* ------------------------------------------------------------------------
\* Blade
\* ------------------------------------------------------------------------
\* max(element.r for element in self.elements)
RECURSIVE MaxRadius(_)
MaxRadius(els) ==
  IF Len(els) = 1 THEN els[1].r
  ELSE LET m == MaxRadius(Tail(els))
       IN  IF els[1].r >= m THEN els[1].r ELSE m

\* The exception Blade.calculate_element_discretization_lengths ends with:
\* ValueError for no elements; with one element i == 0 reads elements[1].
DiscretizationRaises(els) ==
  IF Len(els) = 0 THEN "ValueError"
  ELSE IF Len(els) = 1 THEN "IndexError"
  ELSE "no"

\* Discretization lengths that take an interior station's gap to its next
\* neighbour only.
ForwardDiscretizationLengths(els) ==
  [i \in 1..Len(els) |->
     [els[i] EXCEPT !.dr =
        IF i = Len(els) THEN FDiv(FSub(els[i].r, els[i - 1].r), Lit(2))
        ELSE FDiv(FSub(els[i + 1].r, els[i].r), Lit(2))]]

\* Blade.calculate_element_discretization_lengths: dr of every element, from
\* its neighbours in list order.
CalculateElementDiscretizationLengths(els) ==
  [i \in 1..Len(els) |->
     [els[i] EXCEPT !.dr =
        IF i = 1 THEN FDiv(FSub(els[i + 1].r, els[i].r), Lit(2))
        ELSE IF i = Len(els) THEN FDiv(FSub(els[i].r, els[i - 1].r), Lit(2))
        ELSE FDiv(FSub(els[i + 1].r, els[i - 1].r), Lit(2))]]

\* ------------------------------------------------------------------------
\* BladeElementTheory.compute_aerodynamic_performance
\* ------------------------------------------------------------------------
\* The largest k with k * k <= n, between lo and hi.
RECURSIVE IntSqrt(_, _, _)
IntSqrt(n, lo, hi) ==
  IF lo >= hi THEN lo
  ELSE LET mid == (lo + hi + 1) \div 2
       IN  IF mid <= n \div mid THEN IntSqrt(n, mid, hi) ELSE IntSqrt(n, lo, mid - 1)

\* np.sqrt
FSqrt(x) ==
  IF x = NaN \/ x = NegInf THEN NaN
  ELSE IF x = PosInf THEN PosInf
  ELSE IF x < 0 THEN NaN
  ELSE IntSqrt(x * Scale, 0, 46340)

\* An arithmetic operand of the loop body is None: the statement raises
\* TypeError.
LoadsRaise(el) ==
  \E v \in {el.a, el.a_prime, el.phi, el.cl, el.cd, el.dr} : v = None

\* x * x
Sq(x) == FMul(x, x)

\* Lines 230-232: sqrt(((1 - a) * wind_speed)**2 + ((1 + a_prime) * omega * r)**2)
RelativeVelocity(el, op) ==
  FSqrt(FAdd(Sq(FMul(FSub(Lit(1), el.a), op.wind_speed)),
             Sq(FMul(FMul(FAdd(Lit(1), el.a_prime), op.omega), el.r))))

\* Lines 235-236: 0.5 * rho * V_rel**2 * chord * c, for c = cl and c = cd.
SectionForce(el, op, V_rel, c) ==
  FMul(FMul(FMul(FMul(Half, op.rho), Sq(V_rel)), el.chord), c)

\* A thrust contribution that leaves the wind speed out.
ThrustOfWithoutWind(el, op) ==
  FMul(FMul(FMul(FMul(FMul(FMul(Lit(4), Pi), el.r), op.rho), el.a),
            FSub(Lit(1), el.a)), el.dr)

\* Line 243: 4 * pi * r * rho * wind_speed**2 * a * (1 - a) * dr
ThrustOf(el, op) ==
  FMul(FMul(FMul(FMul(FMul(FMul(FMul(Lit(4), Pi), el.r), op.rho),
                      Sq(op.wind_speed)), el.a), FSub(Lit(1), el.a)), el.dr)

\* Line 244: 4 * pi * r**3 * rho * wind_speed * omega * a_prime * (1 - a) * dr
TorqueOf(el, op) ==
  FMul(FMul(FMul(FMul(FMul(FMul(FMul(FMul(Lit(4), Pi), FMul(Sq(el.r), el.r)), op.rho),
                           op.wind_speed), op.omega), el.a_prime),
            FSub(Lit(1), el.a)), el.dr)

\* Lines 239-240 and 252-258: the fields one pass of the loop writes.
StoreLoads(el, op, V_rel, L, D) ==
  [el EXCEPT !.L = L, !.D = D,
             !.Fn = FAdd(FMul(L, Cos(el.phi)), FMul(D, Sin(el.phi))),
             !.Ft = FSub(FMul(L, Sin(el.phi)), FMul(D, Cos(el.phi))),
             !.dT = ThrustOf(el, op), !.dM = TorqueOf(el, op), !.V_rel = V_rel]

LoadsAt(el, op, V_rel) ==
  StoreLoads(el, op, V_rel, SectionForce(el, op, V_rel, el.cl),
             SectionForce(el, op, V_rel, el.cd))

\* Lines 223-258: the element after one pass of the loop.
ElementLoads(el, op) == LoadsAt(el, op, RelativeVelocity(el, op))

\* The loop of lines 221-262 from element k on: the elements as it leaves
\* them, the totals, and the exception that ended it, if any.  The elements
\* before a raising one keep what was written on them.
RECURSIVE LoadsLoop(_, _, _, _, _)
RECURSIVE LoadsStep(_, _, _, _, _, _)
\* A pass that adds its dT and dM to what the element held instead of
\* replacing it.
LoadsStepAccumulating(els, k, op, total_thrust, total_torque, el) ==
  LoadsLoop([els EXCEPT ![k] =
               [el EXCEPT !.dT = IF els[k].dT = None THEN el.dT
                                 ELSE FAdd(els[k].dT, el.dT),
                          !.dM = IF els[k].dM = None THEN el.dM
                                 ELSE FAdd(els[k].dM, el.dM)]],
            k + 1, op, FAdd(total_thrust, el.dT), FAdd(total_torque, el.dM))

LoadsStep(els, k, op, total_thrust, total_torque, el) ==
  LoadsLoop([els EXCEPT ![k] = el], k + 1, op,
            FAdd(total_thrust, el.dT), FAdd(total_torque, el.dM))

LoadsLoop(els, k, op, total_thrust, total_torque) ==
  IF k > Len(els)
  THEN [elements |-> els, raised |-> "no",
        total_thrust |-> total_thrust, total_torque |-> total_torque]
  ELSE IF LoadsRaise(els[k])
  THEN [elements |-> els, raised |-> "TypeError",
        total_thrust |-> total_thrust, total_torque |-> total_torque]
  ELSE LoadsStep(els, k, op, total_thrust, total_torque, ElementLoads(els[k], op))

\* The ratio without its guard: x / denom.
UnguardedRatio(x, denom) == FDiv(x, denom)

\* `x / denom if denom != 0 else 0`
GuardedRatio(x, denom) == IF denom # 0 THEN FDiv(x, denom) ELSE 0

\* The result of a call that raised exc.
Raised(els, exc, R_read) ==
  [elements |-> els, raised |-> exc, R_read |-> R_read, total_thrust |-> None,
   total_torque |-> None, total_power |-> None, ct |-> None, cp |-> None]

\* Lines 268-269: 0.5 * rho * A * wind_speed**n, A = pi * R**2 (line 216)
Denominator(R, op, vn) == FMul(FMul(FMul(Half, op.rho), FMul(Pi, Sq(R))), vn)

\* Lines 265-274, after the loop returned `loop`.
Coefficients(loop, R, op, power) ==
  [elements |-> loop.elements, raised |-> "no", R_read |-> R,
   total_thrust |-> loop.total_thrust,
   total_torque |-> loop.total_torque,
   total_power |-> power,
   ct |-> GuardedRatio(loop.total_thrust, Denominator(R, op, Sq(op.wind_speed))),
   cp |-> GuardedRatio(power, Denominator(R, op, FMul(Sq(op.wind_speed), op.wind_speed)))]

\* A power taken from the thrust and the wind speed.
AfterLoopPowerFromThrust(loop, R, op) ==
  IF loop.raised # "no" THEN Raised(loop.elements, loop.raised, R)
  ELSE Coefficients(loop, R, op, FMul(loop.total_thrust, op.wind_speed))

AfterLoop(loop, R, op) ==
  IF loop.raised # "no" THEN Raised(loop.elements, loop.raised, R)
  ELSE Coefficients(loop, R, op, FMul(loop.total_torque, op.omega))

\* BladeElementTheory.compute_aerodynamic_performance: the tip radius it read,
\* the elements as it leaves them, the exception it raised or the five results.
ComputeAerodynamicPerformance(els, R, op) ==
  IF R = None THEN Raised(els, "TypeError", R)
  ELSE AfterLoop(LoadsLoop(els, 1, op, 0, 0), R, op)

\* ------------------------------------------------------------------------
\* Blade.compute_induction_factors_blade as a whole
\* ------------------------------------------------------------------------
\* The body of the loop of lines 87-93 for element k: calculate_solidity, then
\* compute_induction_factors.
SolveElement(el, op, p) ==
  ComputeInductionFactors([el EXCEPT !.solidity = CalculateSolidity(el, op)], op, p)

\* The elements after compute_induction_factors_blade returned (two elements
\* or more: with fewer, calculate_element_discretization_lengths raises).
ComputeInductionFactorsBlade(els, op, p) ==
  LET with_dr == CalculateElementDiscretizationLengths(els)
  IN  [k \in 1..Len(els) |-> SolveElement(with_dr[k], op, p)]

\* ------------------------------------------------------------------------
\* PerformanceAnalyzer
\* ------------------------------------------------------------------------
\* np.linspace(start, stop, num)
Linspace(start, stop, num) ==
  [i \in 1..num |->
     IF num = 1 THEN start ELSE start + QuotZ((i - 1) * (stop - start), num - 1)]

\* The cleared results dictionary of lines 41-48.
EmptyMetrics ==
  [wind_speed |-> << >>, power |-> << >>, thrust |-> << >>, torque |-> << >>,
   ct |-> << >>, cp |-> << >>]

\* self._performance_metrics = None
NoMetrics == [EmptyMetrics EXCEPT !.wind_speed = << None >>]

\* PerformanceAnalyzer(blade, min_wind_speed, max_wind_speed, num_points,
\* num_blades, rho)
PerformanceAnalyzer(min_wind_speed, max_wind_speed, num_points, num_blades, rho) ==
  [min_wind_speed |-> min_wind_speed, max_wind_speed |-> max_wind_speed,
   num_points |-> num_points, num_blades |-> num_blades, rho |-> rho,
   wind_speeds |-> Linspace(min_wind_speed, max_wind_speed, num_points),
   metrics |-> NoMetrics, calculated |-> FALSE]

\* Lines 61-66: the results of one wind speed appended to the lists.
Appended(metrics, wind_speed, res) ==
  [wind_speed |-> Append(metrics.wind_speed, wind_speed),
   power  |-> Append(metrics.power, res.total_power),
   thrust |-> Append(metrics.thrust, res.total_thrust),
   torque |-> Append(metrics.torque, res.total_torque),
   ct     |-> Append(metrics.ct, res.ct),
   cp     |-> Append(metrics.cp, res.cp)]

\* The loop of calculate_performance from wind speed i on (lines 50-66): an
\* OperationalCondition per wind speed, its angular velocity, and
\* compute_aerodynamic_performance on the blade as it is; the results are
\* appended.  An exception of compute_aerodynamic_performance ends the loop.
RECURSIVE SweepLoop(_, _, _, _, _)
RECURSIVE SweepStep(_, _, _, _, _)
SweepStep(an, R, i, metrics, res) ==
  IF res.raised # "no"
  THEN [elements |-> res.elements, metrics |-> metrics, raised |-> res.raised]
  ELSE SweepLoop(an, res.elements, R, i + 1, Appended(metrics, an.wind_speeds[i], res))

SweepLoop(an, els, R, i, metrics) ==
  IF i > Len(an.wind_speeds)
  THEN [elements |-> els, metrics |-> metrics, raised |-> "no"]
  ELSE SweepStep(an, R, i, metrics,
         ComputeAerodynamicPerformance(els, R,
           CalculateAngularVelocity(an.wind_speeds[i], an.rho, an.num_blades)))

\* Lines 68-69, or the exception leaving calculate_performance.
AfterSweep(an, sweep) ==
  [analyzer |-> [an EXCEPT !.metrics = sweep.metrics,
                           !.calculated = (sweep.raised = "no") \/ an.calculated],
   elements |-> sweep.elements, raised |-> sweep.raised, calls |-> 1]

\* PerformanceAnalyzer.calculate_performance: the analyzer and the blade
\* elements as it leaves them, and the exception it raised, if any.
CalculatePerformance(an, els, R) ==
  AfterSweep(an, SweepLoop(an, els, R, 1, EmptyMetrics))

\* An accessor that would call calculate_performance whatever the flag says.
EnsureAlwaysCalculates(an, els, R) == CalculatePerformance(an, els, R)

\* PerformanceAnalyzer._ensure_performance_calculated, and how many times it
\* called calculate_performance.
EnsurePerformanceCalculated(an, els, R) ==
  IF ~an.calculated THEN CalculatePerformance(an, els, R)
  ELSE [analyzer |-> an, elements |-> els, raised |-> "no", calls |-> 0]

\* ------------------------------------------------------------------------
\* Inputs
\* ------------------------------------------------------------------------
\* Largest max_iterations a caller passes.
MaxIter == 3

\* Largest number of calculate_performance invocations followed.
MaxCalls == 2

\* Wind speeds the callers ask for.
WindSpeeds == {0, 1500, 3000}

NumBlades == 3

\* The operating conditions the callers pass: built for a wind speed with
\* calculate_angular_velocity, or with omega assigned by the caller (no wind,
\* rotor at rest).
Conditions ==
  {CalculateAngularVelocity(v, Rho, NumBlades) : v \in WindSpeeds}
    \cup {ConditionWithOmega(0, Rho, NumBlades, 0)}

\* a_guess, a_prime_guess, tolerance, max_iterations of a solve.
SolverParams ==
  [a_guess : {0}, a_prime_guess : {0}, tolerance : {5}, max_iterations : {1, MaxIter}]
    \cup [a_guess : {100}, a_prime_guess : {50}, tolerance : {50},
          max_iterations : {MaxIter}]

\* ------------------------------------------------------------------------
\* State
\* ------------------------------------------------------------------------
VARIABLES
  elements,    \* blade.elements
  R,           \* blade.R
  sol,         \* where compute_induction_factors_blade stands, and its locals
  last,        \* the most recent call: its name, its exception, what it returned
  analyzer,    \* the PerformanceAnalyzer's attributes
  calc_calls   \* how many times calculate_performance was invoked

vars == << elements, R, sol, last, analyzer, calc_calls >>

NoLocals ==
  [a |-> None, a_prime |-> None, phi |-> None, alpha |-> None, Cl |-> None,
   Cd |-> None, Cn |-> None, Ct |-> None, a_new |-> None, a_prime_new |-> None,
   it |-> 0, converged |-> FALSE]

NoCondition == ConditionWithOmega(None, None, 0, None)

NoParams == [a_guess |-> None, a_prime_guess |-> None, tolerance |-> None,
             max_iterations |-> 0]

\* No call of compute_induction_factors_blade is running.
Idle == [pc |-> "idle", k |-> 0, op |-> NoCondition, p |-> NoParams, loc |-> NoLocals]

\* The outcome of a call that returns no numbers.
Outcome(call, exc, op) ==
  [call |-> call, raised |-> exc, op |-> op, R_read |-> None, total_thrust |-> None,
   total_torque |-> None, total_power |-> None, ct |-> None, cp |-> None]

\* Blade(elements=..., operational_characteristics=...) and
\* PerformanceAnalyzer(blade, 0, 3, 3, 3, 1.225) were constructed.
Init ==
  /\ elements \in {BladeFiles[b] : b \in 1..Len(BladeFiles)}
  /\ R = None
  /\ sol = Idle
  /\ last = Outcome("init", "no", NoCondition)
  /\ analyzer = PerformanceAnalyzer(0, 3000, 3, NumBlades, Rho)
  /\ calc_calls = 0

\* ------------------------------------------------------------------------
\* Blade and solver calls
\* ------------------------------------------------------------------------
\* blade.load_from_file(file_path, airfoil_map): the elements are replaced;
\* R is not touched.
LoadFromFile(b) ==
  /\ sol.pc = "idle"
  /\ elements' = BladeFiles[b]
  /\ last' = Outcome("load_from_file", "no", NoCondition)
  /\ UNCHANGED << R, sol, analyzer, calc_calls >>

\* blade.compute_induction_factors_blade(a_guess, a_prime_guess,
\* max_iterations, tolerance, operational_condition) is called: it computes
\* every dr (or raises) and enters its loop over the elements.
ComputeInductionFactorsBladeCall(op, p) ==
  /\ sol.pc = "idle"
  /\ IF DiscretizationRaises(elements) # "no"
     THEN /\ last' = Outcome("compute_induction_factors_blade",
                             DiscretizationRaises(elements), op)
          /\ UNCHANGED << elements, sol >>
     ELSE /\ elements' = CalculateElementDiscretizationLengths(elements)
          /\ sol' = [Idle EXCEPT !.pc = "element", !.k = 1, !.op = op, !.p = p]
          /\ last' = Outcome("compute_induction_factors_blade", "no", op)
  /\ UNCHANGED << R, analyzer, calc_calls >>

\* The loop goes on to the element after k, or the call returns.
NextElement == IF sol.k < Len(elements) THEN [Idle EXCEPT !.pc = "element",
                                                          !.k = sol.k + 1,
                                                          !.op = sol.op,
                                                          !.p = sol.p]
               ELSE Idle

\* Lines 88-90 of Blade and 170-202 of BladeElement for element k: solidity,
\* R, then compute_induction_factors up to its call of
\* compute_element_induction_factors.  Without aerodynamic data it returns at
\* once, the element's results left as they were.
ElementBegin ==
  /\ sol.pc = "element"
  /\ LET el == [elements[sol.k] EXCEPT
                  !.solidity = CalculateSolidity(elements[sol.k], sol.op)]
     IN  /\ elements' = [elements EXCEPT ![sol.k] = el]
         /\ R' = MaxRadius(elements)
         /\ sol' = IF HasAeroData(el)
                   THEN [sol EXCEPT !.pc = "loop", !.loc = SolveBegin(el, sol.op, sol.p)]
                   ELSE NextElement
  /\ UNCHANGED << last, analyzer, calc_calls >>

\* One pass of the loop of compute_element_induction_factors.
LoopIterate ==
  /\ sol.pc = "loop"
  /\ ~LoopOver(sol.loc, sol.p)
  /\ sol' = [sol EXCEPT !.loc = IterStep(sol.loc, elements[sol.k], sol.op, sol.p)]
  /\ UNCHANGED << elements, R, last, analyzer, calc_calls >>

\* compute_element_induction_factors returns and compute_induction_factors
\* stores the results on the element (lines 217-226).
ElementStore ==
  /\ sol.pc = "loop"
  /\ LoopOver(sol.loc, sol.p)
  /\ elements' = [elements EXCEPT ![sol.k] = SolveStore(elements[sol.k], sol.loc, sol.op)]
  /\ sol' = NextElement
  /\ UNCHANGED << R, last, analyzer, calc_calls >>

\* What the caller of compute_aerodynamic_performance gets: the exception, or
\* the five results.
Returned(res, op) ==
  [call |-> "compute_aerodynamic_performance", raised |-> res.raised, op |-> op,
   R_read |-> res.R_read, total_thrust |-> res.total_thrust,
   total_torque |-> res.total_torque, total_power |-> res.total_power,
   ct |-> res.ct, cp |-> res.cp]

\* BladeElementTheory(blade).compute_aerodynamic_performance(op)
ComputeAerodynamicPerformanceCall(op) ==
  /\ sol.pc = "idle"
  /\ elements' = ComputeAerodynamicPerformance(elements, R, op).elements
  /\ last' = Returned(ComputeAerodynamicPerformance(elements, R, op), op)
  /\ UNCHANGED << R, sol, analyzer, calc_calls >>

Next ==
  \/ \E b \in 1..Len(BladeFiles) : LoadFromFile(b)
  \/ \E op \in Conditions, p \in SolverParams : ComputeInductionFactorsBladeCall(op, p)
  \/ ElementBegin
  \/ LoopIterate
  \/ ElementStore
  \/ \E op \in Conditions : ComputeAerodynamicPerformanceCall(op)

Spec == Init /\ [][Next]_vars

\* ------------------------------------------------------------------------
\* The analyzer's calls
\* ------------------------------------------------------------------------
\* The methods that call _ensure_performance_calculated.
Accessors == {"performance_metrics", "plot_power_curve"}

\* The attribute assignments a caller makes on the analyzer after construction.
SweepParameters ==
  {<<"max_wind_speed", 1500>>, <<"max_wind_speed", 3000>>,
   <<"num_points", 2>>, <<"num_points", 3>>}

\* The solves made between the analyzer's calls: the default guesses and
\* tolerance, at a wind speed of the schedule.
SweepSolves ==
  {CalculateAngularVelocity(v, Rho, NumBlades) : v \in WindSpeeds \ {0}}
    \X [a_guess : {0}, a_prime_guess : {0}, tolerance : {5}, max_iterations : {MaxIter}]

\* blade.compute_induction_factors_blade(...) run to its return.
SolveBlade(op, p) ==
  /\ sol.pc = "idle"
  /\ IF DiscretizationRaises(elements) # "no"
     THEN /\ last' = Outcome("compute_induction_factors_blade",
                             DiscretizationRaises(elements), op)
          /\ UNCHANGED << elements, R >>
     ELSE /\ elements' = ComputeInductionFactorsBlade(elements, op, p)
          /\ R' = MaxRadius(elements)
          /\ last' = Outcome("compute_induction_factors_blade", "no", op)
  /\ UNCHANGED << sol, analyzer, calc_calls >>

\* analyzer.performance_metrics, analyzer.plot_power_curve(): each begins with
\* _ensure_performance_calculated.
Access(method) ==
  /\ sol.pc = "idle"
  /\ calc_calls + EnsurePerformanceCalculated(analyzer, elements, R).calls <= MaxCalls
  /\ analyzer' = EnsurePerformanceCalculated(analyzer, elements, R).analyzer
  /\ elements' = EnsurePerformanceCalculated(analyzer, elements, R).elements
  /\ calc_calls' = calc_calls + EnsurePerformanceCalculated(analyzer, elements, R).calls
  /\ last' = Outcome(method, EnsurePerformanceCalculated(analyzer, elements, R).raised,
                     NoCondition)
  /\ UNCHANGED << R, sol >>

\* analyzer.calculate_performance() called by the user.
CalculatePerformanceCall ==
  /\ sol.pc = "idle"
  /\ calc_calls < MaxCalls
  /\ analyzer' = CalculatePerformance(analyzer, elements, R).analyzer
  /\ elements' = CalculatePerformance(analyzer, elements, R).elements
  /\ calc_calls' = calc_calls + 1
  /\ last' = Outcome("calculate_performance",
                     CalculatePerformance(analyzer, elements, R).raised, NoCondition)
  /\ UNCHANGED << R, sol >>

\* analyzer.<name> = value: a plain attribute assignment, nothing else runs.
SetSweepParameter(name, value) ==
  /\ sol.pc = "idle"
  /\ analyzer[name] # value
  /\ analyzer' = [analyzer EXCEPT ![name] = value]
  /\ last' = Outcome("setattr", "no", NoCondition)
  /\ UNCHANGED << elements, R, sol, calc_calls >>

NextSweep ==
  \/ \E b \in 1..Len(BladeFiles) : LoadFromFile(b)
  \/ \E s \in SweepSolves : SolveBlade(s[1], s[2])
  \/ \E method \in Accessors : Access(method)
  \/ CalculatePerformanceCall
  \/ \E s \in SweepParameters : SetSweepParameter(s[1], s[2])

SpecSweep == Init /\ [][NextSweep]_vars

\* ------------------------------------------------------------------------
\* Properties of the solver and of the integration
\* ------------------------------------------------------------------------
InLoop == sol.pc = "loop"

\* The coefficients a pass used are those of the flow angle of that pass.
SameCoefficients(loc, now) ==
  /\ loc.alpha = now.alpha
  /\ loc.Cl = now.Cl
  /\ loc.Cd = now.Cd
  /\ loc.Cn = now.Cn
  /\ loc.Ct = now.Ct

\* C2: in compute_induction_factors every pass of the loop works with the
\* alpha, Cl, Cd, Cn and Ct of the flow angle it computed from the current a
\* and a_prime, never with those of the initial guess.
C2_CoefficientsOfThePass ==
  (InLoop /\ sol.loc.it >= 1) =>
    SameCoefficients(sol.loc, AeroCoefficientsAt(elements[sol.k], sol.op, sol.loc.phi))

\* C3: when the loop ends on convergence, the a and a_prime it returns are the
\* a_new and a_prime_new of the pass that converged.
C3_ReturnsConvergedIterate ==
  (InLoop /\ sol.loc.converged) =>
    /\ sol.loc.a = sol.loc.a_new
    /\ sol.loc.a_prime = sol.loc.a_prime_new

\* The loop ran out of passes without meeting the tolerance.
Exhausted == InLoop /\ LoopOver(sol.loc, sol.p) /\ ~sol.loc.converged

\* The step on which compute_element_induction_factors returns.
Returns == InLoop /\ sol'.pc # "loop"

\* C4: a solve makes at most max_iterations passes (every step inside the loop
\* uses one up) and then returns; when the passes run out it returns the a_new,
\* a_prime_new of the last pass, stored on the element, and no exception is
\* raised.
C4_BoundedAndReturnsLast ==
  /\ [](InLoop => /\ sol.loc.it <= sol.p.max_iterations
                  /\ last.raised = "no")
  /\ [][(InLoop /\ ~Returns) => sol'.loc.it = sol.loc.it + 1]_vars
  /\ [](Exhausted => /\ sol.loc.it = sol.p.max_iterations
                     /\ sol.loc.a = sol.loc.a_new
                     /\ sol.loc.a_prime = sol.loc.a_prime_new)
  /\ [][Returns => /\ elements'[sol.k].a = sol.loc.a
                   /\ elements'[sol.k].a_prime = sol.loc.a_prime
                   /\ last' = last]_vars

\* The passes ran out after more than one of them, with a, a_prime moved.
C4_Witness ==
  /\ Exhausted
  /\ sol.loc.it = MaxIter
  /\ sol.loc.a # sol.p.a_guess
  /\ IsFinite(sol.loc.a)

\* C5: with no wind and the rotor at rest the update is guarded: every pass
\* leaves a_new = a and a_prime_new = a_prime, all of them finite.
C5_GuardedAtRest ==
  (InLoop /\ sol.op.wind_speed = 0 /\ sol.op.omega = 0 /\ sol.loc.it >= 1) =>
    /\ sol.loc.a_new = sol.p.a_guess
    /\ sol.loc.a_prime_new = sol.p.a_prime_guess
    /\ sol.loc.a = sol.p.a_guess
    /\ sol.loc.a_prime = sol.p.a_prime_guess
    /\ IsFinite(sol.loc.a_new)
    /\ IsFinite(sol.loc.a_prime_new)

\* compute_aerodynamic_performance was the last call.
Integrated == last.call = "compute_aerodynamic_performance"

\* Every element holds finite induction factors.
FiniteInduction ==
  /\ Len(elements) > 0
  /\ \A k \in 1..Len(elements) :
       IsFinite(elements[k].a) /\ IsFinite(elements[k].a_prime)

\* C6: compute_aerodynamic_performance at wind speed 0 over finite a, a_prime
\* raises nothing and returns CT = 0 and CP = 0; with omega = 0 as well all
\* five results are 0.
C6_ZeroWind ==
  (Integrated /\ last.op.wind_speed = 0 /\ FiniteInduction) =>
    /\ last.raised = "no"
    /\ last.ct = 0
    /\ last.cp = 0
    /\ last.op.omega = 0 =>
         (last.total_thrust = 0 /\ last.total_torque = 0 /\ last.total_power = 0)

\* The integration ran at rest over a blade whose factors are not all zero.
C6_Witness ==
  /\ Integrated
  /\ last.op.wind_speed = 0
  /\ last.op.omega = 0
  /\ FiniteInduction
  /\ \E k \in 1..Len(elements) : elements[k].a # 0 /\ elements[k].a_prime # 0
  /\ last.raised = "no"

\* compute_induction_factors_blade has returned without an exception.
Solved ==
  /\ sol.pc = "idle"
  /\ last.call = "compute_induction_factors_blade"
  /\ last.raised = "no"

\* C7: no station without aerodynamic data gets as far as the solver, and the
\* solver never returns with a station's a, a_prime unset.
C7_NoStationWithoutData ==
  /\ sol.pc = "element" => HasAeroData(elements[sol.k])
  /\ Solved => \A k \in 1..Len(elements) :
                 /\ HasAeroData(elements[k])
                 /\ elements[k].a # None
                 /\ elements[k].a_prime # None

\* C10: the R that compute_aerodynamic_performance reads is the largest r of
\* the blade's current stations.
C10_TipRadius ==
  (Integrated /\ Len(elements) > 0) => last.R_read = MaxRadius(elements)

\* ------------------------------------------------------------------------
\* Properties of the performance sweep
\* ------------------------------------------------------------------------
\* The five results for wind speed i of the sweep, were the induction factors
\* solved for that wind speed with the parameters p.
SolvedPoint(an, els, p, op) ==
  ComputeAerodynamicPerformance(ComputeInductionFactorsBlade(els, op, p),
                                MaxRadius(els), op)

SolvedPoints(an, els, p) ==
  [i \in 1..Len(an.wind_speeds) |->
     SolvedPoint(an, els, p,
                 CalculateAngularVelocity(an.wind_speeds[i], an.rho, an.num_blades))]

\* The curve whose every point is integrated from factors solved for that point.
SolvedCurve(an, pts) ==
  [wind_speed |-> an.wind_speeds,
   power  |-> [i \in 1..Len(pts) |-> pts[i].total_power],
   thrust |-> [i \in 1..Len(pts) |-> pts[i].total_thrust],
   torque |-> [i \in 1..Len(pts) |-> pts[i].total_torque],
   ct     |-> [i \in 1..Len(pts) |-> pts[i].ct],
   cp     |-> [i \in 1..Len(pts) |-> pts[i].cp]]

\* calculate_performance ran on this step and returned.
Swept == calc_calls' = calc_calls + 1 /\ last'.raised = "no"

\* C1: whenever calculate_performance has run, the thrust, torque, power, CT
\* and CP it recorded for each wind speed of the sweep are integrated from
\* induction factors solved for that wind speed, not from what a solve at
\* another wind speed left on the elements.
C1_SweepSolvesEachPoint ==
  [][Swept =>
       /\ DiscretizationRaises(elements) = "no"
       /\ \E p \in SolverParams :
            analyzer'.metrics = SolvedCurve(analyzer, SolvedPoints(analyzer, elements, p))]_vars

\* An accessor is called right after a sweep parameter was assigned, the
\* performance having been computed before.
AccessAfterChange ==
  /\ analyzer.calculated
  /\ last.call = "setattr"
  /\ last'.call \in Accessors

\* C8: once the performance is computed, assigning a sweep parameter makes the
\* next access recompute, and the curve it returns covers the wind speeds the
\* current min_wind_speed, max_wind_speed and num_points describe.
C8_RecomputedAfterChange ==
  [][AccessAfterChange =>
       /\ calc_calls' = calc_calls + 1
       /\ analyzer'.metrics.wind_speed =
            Linspace(analyzer'.min_wind_speed, analyzer'.max_wind_speed,
                     analyzer'.num_points)]_vars

\* C9: construction computes nothing; an accessor invokes calculate_performance
\* exactly when _performance_calculated is False, and once a computation has
\* succeeded an access changes nothing.
C9_LazyAndCached ==
  /\ (analyzer.metrics = NoMetrics /\ ~analyzer.calculated /\ calc_calls = 0)
  /\ [][last'.call \in Accessors =>
          /\ (calc_calls' = calc_calls + 1) <=> ~analyzer.calculated
          /\ (calc_calls' = calc_calls) <=> analyzer.calculated
          /\ analyzer.calculated =>
               (analyzer' = analyzer /\ elements' = elements)]_vars

\* An accessor was the last call, the curve is there, and one computation made it.
C9_Witness ==
  /\ last.call \in Accessors
  /\ analyzer.calculated
  /\ calc_calls = 1
  /\ Len(analyzer.metrics.power) = analyzer.num_points

\* ------------------------------------------------------------------------
\* Station geometry and operating conditions on their own
\* ------------------------------------------------------------------------
\* Largest number of stations of a blade built by hand.
MaxStations == 3

\* The stations blades are built from by hand: one at the hub centre, one
\* wide enough to exceed its annulus, and gaps that differ.
Stations ==
  {BladeElement(0, 0, 500, 1), BladeElement(1000, 0, 3000, 1),
   BladeElement(2000, 0, 600, 1), BladeElement(4000, 0, 500, 1)}

\* Blade counts of the operating conditions.
BladeCounts == {2, 3}

\* Blade(elements=[...]) for every list of at most MaxStations of the
\* stations, in any order.
StationLists ==
  UNION {{els \in [1..n -> Stations] :
            \A i, j \in 1..n : i # j => els[i] # els[j]} : n \in 0..MaxStations}

InitStation ==
  /\ elements \in StationLists
  /\ R = None
  /\ sol = Idle
  /\ last = Outcome("init", "no", NoCondition)
  /\ analyzer = PerformanceAnalyzer(0, 3000, 3, NumBlades, Rho)
  /\ calc_calls = 0

\* blade.calculate_element_discretization_lengths()
CalculateElementDiscretizationLengthsCall ==
  /\ elements' = IF DiscretizationRaises(elements) = "no"
                 THEN CalculateElementDiscretizationLengths(elements)
                 ELSE elements
  /\ last' = Outcome("calculate_element_discretization_lengths",
                     DiscretizationRaises(elements), NoCondition)
  /\ UNCHANGED << R, sol, analyzer, calc_calls >>

\* What element.calculate_solidity(operational_conditions=op) returned for
\* element k.
SolidityReturned(k, op, value) ==
  [k |-> k, value |-> value] @@ Outcome("calculate_solidity", "no", op)

\* blade.elements[k].calculate_solidity(operational_conditions=op)
CalculateSolidityCall(k, op) ==
  /\ k \in 1..Len(elements)
  /\ elements' = [elements EXCEPT ![k].solidity = CalculateSolidity(elements[k], op)]
  /\ last' = SolidityReturned(k, op, CalculateSolidity(elements[k], op))
  /\ UNCHANGED << R, sol, analyzer, calc_calls >>

\* Wind speeds asked of the characteristics: below the table, on a sample,
\* between two samples, above the table.
QueryWindSpeeds == {500, 1000, 1500, 3500}

\* Angles of attack (degrees) asked of a polar.
QueryAngles == {-12000, 0, 2500, 15000, 25000}

\* condition = OperationalCondition(wind_speed=..., rho=..., num_blades=...)
NewCondition(wind_speed, num_blades) ==
  /\ last' = Outcome("OperationalCondition", "no",
                     OperationalCondition(wind_speed, Rho, num_blades))
  /\ UNCHANGED << elements, R, sol, analyzer, calc_calls >>

\* The caller holds the condition the last call made or returned.
HoldsCondition ==
  last.call \in {"OperationalCondition", "calculate_angular_velocity", "__str__"}

\* condition.calculate_angular_velocity(blade), which returns the condition.
CalculateAngularVelocityCall ==
  /\ HoldsCondition
  /\ last' = Outcome("calculate_angular_velocity", "no", WithAngularVelocity(last.op))
  /\ UNCHANGED << elements, R, sol, analyzer, calc_calls >>

\* str(condition): __str__ reads self.rpm and self.omega.
StrCall ==
  /\ HoldsCondition
  /\ last' = Outcome("__str__",
                     IF "rpm" \in DOMAIN last.op THEN "no" ELSE "AttributeError",
                     last.op)
  /\ UNCHANGED << elements, R, sol, analyzer, calc_calls >>

\* BladeElementTheory._get_aero_coeffs_from_element(element, alpha): Cl and Cd
\* interpolated in the element's polar, (0.0, 0.0) without one.
GetAeroCoeffsFromElement(el, alpha) ==
  IF HasAeroData(el)
  THEN << Interp(alpha, [i \in 1..Len(AirfoilMap[el.airfoil]) |->
                           AirfoilMap[el.airfoil][i].alpha],
                        [i \in 1..Len(AirfoilMap[el.airfoil]) |->
                           AirfoilMap[el.airfoil][i].cl]),
          Interp(alpha, [i \in 1..Len(AirfoilMap[el.airfoil]) |->
                           AirfoilMap[el.airfoil][i].alpha],
                        [i \in 1..Len(AirfoilMap[el.airfoil]) |->
                           AirfoilMap[el.airfoil][i].cd]) >>
  ELSE << 0, 0 >>

\* What the call returned for an element of that airfoil.
CoeffsReturned(airfoil, alpha, value) ==
  [airfoil |-> airfoil, alpha |-> alpha, value |-> value]
    @@ Outcome("_get_aero_coeffs_from_element", "no", NoCondition)

\* BET._get_aero_coeffs_from_element(blade.elements[k], alpha)
GetAeroCoeffsFromElementCall(k, alpha) ==
  /\ k \in 1..Len(elements)
  /\ last' = CoeffsReturned(elements[k].airfoil, alpha,
                            GetAeroCoeffsFromElement(elements[k], alpha))
  /\ UNCHANGED << elements, R, sol, analyzer, calc_calls >>

\* What the interpolation of the pitch gave at the condition's wind speed.
PitchReturned(op, value) == [value |-> value] @@ Outcome("pitch_rad", "no", op)

\* pitch_rad = np.interp(operational_condition.wind_speed, wind_speeds,
\* pitches), the pitch compute_induction_factors takes for a condition.
InterpolatePitch(wind_speed) ==
  /\ last' = PitchReturned(OperationalCondition(wind_speed, Rho, NumBlades),
                           PitchRad(OperationalCondition(wind_speed, Rho, NumBlades)))
  /\ UNCHANGED << elements, R, sol, analyzer, calc_calls >>

NextStation ==
  \/ \E b \in 1..Len(BladeFiles) : LoadFromFile(b)
  \/ CalculateElementDiscretizationLengthsCall
  \/ \E k \in 1..MaxStations, n \in BladeCounts :
       CalculateSolidityCall(k, OperationalCondition(0, Rho, n))
  \/ \E v \in QueryWindSpeeds : NewCondition(v, NumBlades)
  \/ CalculateAngularVelocityCall
  \/ StrCall
  \/ \E k \in 1..MaxStations, alpha \in QueryAngles : GetAeroCoeffsFromElementCall(k, alpha)
  \/ \E v \in QueryWindSpeeds : InterpolatePitch(v)

SpecStation == InitStation /\ [][NextStation]_vars

\* ------------------------------------------------------------------------
\* Properties of the geometry and the operating conditions
\* ------------------------------------------------------------------------
\* calculate_element_discretization_lengths was the last call and returned.
Discretized ==
  last.call = "calculate_element_discretization_lengths" /\ last.raised = "no"

\* C11: after calculate_element_discretization_lengths returns, the first
\* station's dr is half the gap to the second, the last station's is half the
\* gap to the one before it, and every interior station's is half the distance
\* between its two neighbours, the neighbours being those of the list order.
C11_NeighbourGaps ==
  Discretized =>
    \A i \in 1..Len(elements) :
      2 * elements[i].dr =
        IF i = 1 THEN elements[2].r - elements[1].r
        ELSE IF i = Len(elements) THEN elements[i].r - elements[i - 1].r
        ELSE elements[i + 1].r - elements[i - 1].r

\* A blade of three stations out of radial order whose gaps differ got its
\* lengths.
C11_Witness ==
  /\ Discretized
  /\ Len(elements) = 3
  /\ elements[2].r < elements[1].r
  /\ elements[3].r - elements[2].r # elements[2].r - elements[1].r
  /\ elements[2].dr # elements[1].dr

\* calculate_element_discretization_lengths was the last call.
DiscretizationCalled == last.call = "calculate_element_discretization_lengths"

\* C12: calculate_element_discretization_lengths raises ValueError on a blade
\* without elements, and on every blade with at least one element (a single
\* one included) it returns and every element then has a dr that is not None.
C12_EveryNonEmptyBlade ==
  DiscretizationCalled =>
    IF Len(elements) = 0 THEN last.raised = "ValueError"
    ELSE /\ last.raised = "no"
         /\ \A i \in 1..Len(elements) : elements[i].dr # None

\* calculate_solidity was the last call; last.k is the station it was
\* called on.
SolidityCalled == last.call = "calculate_solidity"

\* C13: whatever the station and the number of blades, the solidity
\* calculate_solidity stores (and returns) lies between 0 and 1, and it is
\* exactly 1 on a station at r = 0.
C13_SolidityInUnitRange ==
  /\ \A k \in 1..Len(elements) :
       elements[k].solidity # None =>
         /\ 0 <= elements[k].solidity
         /\ elements[k].solidity <= Lit(1)
  /\ SolidityCalled =>
       /\ elements[last.k].solidity = last.value
       /\ elements[last.k].r = 0 => last.value = Lit(1)

\* The solidity was calculated for a station at the hub centre, on a blade
\* that also holds a station whose chords would cover more than its annulus.
C13_Witness ==
  /\ SolidityCalled
  /\ elements[last.k].r = 0
  /\ elements[last.k].solidity = Lit(1)
  /\ \E k \in 1..Len(elements) :
       /\ elements[k].r # 0
       /\ 3 * elements[k].chord > 2 * Pi * (elements[k].r \div Scale)
       /\ elements[k].solidity = Lit(1)

\* min(1, num_blades * chord / (2 * pi * r)) in whole thousandths.
ExpectedSolidity(el, num_blades) ==
  LET circumference == (2 * Pi * el.r) \div Scale
      ratio         == (num_blades * el.chord * Scale) \div circumference
  IN  IF ratio > Scale THEN Scale ELSE ratio

\* C14: on a station with r # 0, calculate_solidity stores and returns
\* min(1, num_blades * chord / (2 * pi * r)), where num_blades is the one of
\* the operating condition passed to that call.
C14_SolidityFormula ==
  (SolidityCalled /\ elements[last.k].r # 0) =>
    /\ last.value = ExpectedSolidity(elements[last.k], last.op.num_blades)
    /\ elements[last.k].solidity = last.value

\* The solidity of a station away from the hub was calculated for a rotor of
\* two blades and stayed below 1.
C14_Witness ==
  /\ SolidityCalled
  /\ elements[last.k].r # 0
  /\ last.op.num_blades = 2
  /\ last.value < Lit(1)
  /\ last.value > 0

\* y is what a table of samples (xp[i], fp[i]) gives at x: the first sample's
\* value at or below the table, the last sample's at or above it, and between
\* two neighbouring samples the point of the straight line through them (to
\* the last digit kept).
IsTableValue(y, x, xp, fp) ==
  \/ x <= xp[1] /\ y = fp[1]
  \/ x >= xp[Len(xp)] /\ y = fp[Len(xp)]
  \/ \E i \in 1..(Len(xp) - 1) :
       /\ xp[i] <= x
       /\ x <= xp[i + 1]
       /\ Abs((y - fp[i]) * (xp[i + 1] - xp[i]) - (fp[i + 1] - fp[i]) * (x - xp[i]))
            < xp[i + 1] - xp[i]

\* The columns of the operational characteristics and of a polar.
CharacteristicsColumn(name) == [i \in 1..Len(Characteristics) |-> Characteristics[i][name]]
PitchColumn == [i \in 1..Len(Characteristics) |-> Radians(Characteristics[i].pitch)]
PolarColumn(airfoil, name) == [i \in 1..Len(AirfoilMap[airfoil]) |-> AirfoilMap[airfoil][i][name]]

\* The rpm and omega calculate_angular_velocity left on the condition.
RpmFromTable ==
  last.call = "calculate_angular_velocity" =>
    /\ last.raised = "no"
    /\ IsTableValue(last.op.rpm, last.op.wind_speed,
                    CharacteristicsColumn("wind_speed"), CharacteristicsColumn("rpm"))
    /\ Abs(60 * Scale * last.op.omega - 2 * Pi * last.op.rpm) < 61 * Scale

\* The pitch interpolated for a condition.
PitchFromTable ==
  last.call = "pitch_rad" =>
    /\ last.raised = "no"
    /\ IsTableValue(last.value, last.op.wind_speed,
                    CharacteristicsColumn("wind_speed"), PitchColumn)

\* The Cl and Cd returned for an angle of attack on a station with a polar.
PolarFromTable ==
  (last.call = "_get_aero_coeffs_from_element" /\ last.airfoil # NoAirfoil
     /\ Len(AirfoilMap[last.airfoil]) > 0) =>
    /\ last.raised = "no"
    /\ IsTableValue(last.value[1], last.alpha,
                    PolarColumn(last.airfoil, "alpha"), PolarColumn(last.airfoil, "cl"))
    /\ IsTableValue(last.value[2], last.alpha,
                    PolarColumn(last.airfoil, "alpha"), PolarColumn(last.airfoil, "cd"))

\* C15: the rpm (and omega = rpm * 2 * pi / 60) and the pitch for a wind
\* speed, and Cl and Cd for an angle of attack, are the table's value at a
\* sample, the linear interpolation between two neighbouring samples, and the
\* first or last sample's value for a query outside the table; no query
\* raises.
C15_TableLookups == RpmFromTable /\ PitchFromTable /\ PolarFromTable

\* A wind speed below the table had its rpm taken from the first sample.
C15_Witness ==
  /\ last.call = "calculate_angular_velocity"
  /\ last.op.wind_speed < Characteristics[1].wind_speed
  /\ last.op.rpm = Characteristics[1].rpm
  /\ last.op.omega # None

\* C16: a condition just constructed has the attributes rpm and omega, both
\* None until calculate_angular_velocity is called, and reading rpm before
\* that call, directly or through str(), does not raise.
C16_RpmPresentFromConstruction ==
  /\ last.call = "OperationalCondition" =>
       /\ "rpm" \in DOMAIN last.op
       /\ "omega" \in DOMAIN last.op
       /\ last.op.rpm = None
       /\ last.op.omega = None
  /\ last.call = "__str__" => last.raised = "no"

\* C17: when Blade.load_from_file returns, every element it loaded already
\* has its solidity, 3 * chord / (2 * pi * r), without any further call.
C17_SolidityOnLoad ==
  last.call = "load_from_file" =>
    \A k \in 1..Len(elements) :
      /\ elements[k].solidity # None
      /\ elements[k].solidity =
           (3 * elements[k].chord * Scale) \div ((2 * Pi * elements[k].r) \div Scale)

\* ------------------------------------------------------------------------
\* Properties of repeated solves and of the integration
\* ------------------------------------------------------------------------
\* The station as it was constructed: its geometry, every derived and output
\* field None.
AsConstructed(el) == BladeElement(el.r, el.twist, el.chord, el.airfoil)

\* The loop of the solve of element sol.k is over and its results are about to
\* be stored.
AboutToStore == sol.pc = "loop" /\ LoopOver(sol.loc, sol.p)

\* C18: the (a, a') a solve stores on a station are those the same solve (same
\* operating point, schedule and guesses) gives on that station as it was
\* constructed, whatever its output fields held before the solve; so two
\* solves with the same inputs give identical (a, a'), also after a solve for
\* another operating point.
C18_SolveIgnoresEarlierResults ==
  [][AboutToStore =>
       /\ elements'[sol.k].a =
            SolveElement(AsConstructed(elements[sol.k]), sol.op, sol.p).a
       /\ elements'[sol.k].a_prime =
            SolveElement(AsConstructed(elements[sol.k]), sol.op, sol.p).a_prime]_vars

\* A solve is about to store its results on a station that holds finite
\* results of an earlier solve different from them.
C18_Witness ==
  /\ AboutToStore
  /\ elements[sol.k].a # None
  /\ IsFinite(elements[sol.k].a)
  /\ IsFinite(sol.loc.a)
  /\ elements[sol.k].a # sol.loc.a
  /\ elements[sol.k].a_prime # sol.loc.a_prime

\* compute_aerodynamic_performance was the last call and returned its five
\* results.
IntegratedResults == Integrated /\ last.raised = "no"

\* C19: compute_aerodynamic_performance overwrites and never accumulates: a
\* second call with the same operating condition, the induction factors
\* unchanged, returns the same (T, Q, P, CT, CP) and leaves the same L, D, Fn,
\* Ft, dT, dM and V_rel on every station.
C19_SecondCallChangesNothing ==
  [][(IntegratedResults /\ last'.call = "compute_aerodynamic_performance"
        /\ last'.op = last.op) =>
       /\ last' = last
       /\ elements' = elements]_vars

\* The integration returned loads that are not all zero: adding them a second
\* time would show.
C19_Witness ==
  /\ IntegratedResults
  /\ IsFinite(last.total_thrust)
  /\ last.total_thrust # 0
  /\ last.total_torque # 0
  /\ \E k \in 1..Len(elements) : IsFinite(elements[k].dT) /\ elements[k].dT # 0

\* The float sum of a field over the elements from k on, added in list order
\* to the sum so far.
RECURSIVE SumFrom(_, _, _, _)
SumFrom(els, name, k, total) ==
  IF k > Len(els) THEN total
  ELSE SumFrom(els, name, k + 1, FAdd(total, els[k][name]))

\* C20: the power compute_aerodynamic_performance returns is its torque times
\* omega, and the thrust and torque it returns are the sums of the dT and dM
\* that call wrote on the stations.
C20_TotalsAreSums ==
  IntegratedResults =>
    /\ last.total_power = FMul(last.total_torque, last.op.omega)
    /\ last.total_thrust = SumFrom(elements, "dT", 1, 0)
    /\ last.total_torque = SumFrom(elements, "dM", 1, 0)

\* The integration returned a power that is not zero over several stations
\* with different torque contributions.
C20_Witness ==
  /\ IntegratedResults
  /\ IsFinite(last.total_power)
  /\ last.total_power # 0
  /\ Len(elements) >= 2
  /\ elements[1].dM # elements[2].dM
  /\ last.total_thrust # last.total_torque

\* ------------------------------------------------------------------------
\* Properties of the performance curve
\* ------------------------------------------------------------------------
\* calculate_performance, called by the user, was the last call and returned.
SweepCompleted == last.call = "calculate_performance" /\ last.raised = "no"

\* Entry i of the six sequences is the wind speed and the results res.
EntryIs(metrics, i, wind_speed, res) ==
  /\ metrics.wind_speed[i] = wind_speed
  /\ metrics.thrust[i] = res.total_thrust
  /\ metrics.torque[i] = res.total_torque
  /\ metrics.power[i] = res.total_power
  /\ metrics.ct[i] = res.ct
  /\ metrics.cp[i] = res.cp

\* Entry i of the sequences belongs to wind speed i of the grid.
EntryOfGrid(an, i, grid) ==
  EntryIs(an.metrics, i, grid[i],
          ComputeAerodynamicPerformance(elements, R,
            CalculateAngularVelocity(grid[i], an.rho, an.num_blades)))

\* C21: after every completed calculate_performance each of the six result
\* sequences has exactly num_points entries, entry i belonging to the i-th
\* wind speed of the grid of num_points speeds from min_wind_speed to
\* max_wind_speed; a repeated call replaces the sequences and does not append.
C21_CurveHasNumPoints ==
  SweepCompleted =>
    /\ \A name \in DOMAIN analyzer.metrics :
         Len(analyzer.metrics[name]) = analyzer.num_points
    /\ \A i \in 1..analyzer.num_points :
         EntryOfGrid(analyzer, i,
                     Linspace(analyzer.min_wind_speed, analyzer.max_wind_speed,
                              analyzer.num_points))

\* ------------------------------------------------------------------------
\* Solves and integrations at operating points the caller sets up
\* ------------------------------------------------------------------------
\* Operating conditions whose omega the caller assigns: wind speeds of 1, 1.5
\* and 2 m/s at rotor speeds of 1 and 2 rad/s.
LoadConditions ==
  {ConditionWithOmega(v, Rho, NumBlades, w) : v \in {1000, 1500, 2000}, w \in {1000, 2000}}

\* The guesses, tolerance and max_iterations of the solves before an
\* integration.
LoadParams ==
  [a_guess : {0}, a_prime_guess : {0}, tolerance : {5}, max_iterations : {1, MaxIter}]

NextLoads ==
  \/ \E b \in 1..Len(BladeFiles) : LoadFromFile(b)
  \/ \E op \in LoadConditions, p \in LoadParams : SolveBlade(op, p)
  \/ \E op \in LoadConditions : ComputeAerodynamicPerformanceCall(op)

SpecLoads == Init /\ [][NextLoads]_vars

\* ------------------------------------------------------------------------
\* Properties of the returned coefficients and totals
\* ------------------------------------------------------------------------
\* Every station holds the finite induction factors a solve with parameters p
\* leaves for the operating condition op.
HoldsSolutionOf(op, p) ==
  /\ Len(elements) > 0
  /\ \A k \in 1..Len(elements) :
       /\ IsFinite(elements[k].a)
       /\ IsFinite(elements[k].a_prime)
       /\ elements[k].a = SolveElement(AsConstructed(elements[k]), op, p).a
       /\ elements[k].a_prime = SolveElement(AsConstructed(elements[k]), op, p).a_prime

\* The Betz limit, 0.593.
BetzLimit == 593

\* C22: for an operating point with V > 0 whose stations hold solved induction
\* factors, compute_aerodynamic_performance returns 0 <= CT <= 1 and
\* 0 <= CP <= 0.593.
C22_CoefficientsWithinLimits ==
  (IntegratedResults /\ last.op.wind_speed > 0
     /\ \E p \in LoadParams : HoldsSolutionOf(last.op, p)) =>
    /\ IsFinite(last.ct)
    /\ 0 <= last.ct
    /\ last.ct <= Lit(1)
    /\ IsFinite(last.cp)
    /\ 0 <= last.cp
    /\ last.cp <= BetzLimit

\* Every station holds 0 < a < 1 and a' > 0.
InductionInRange ==
  /\ Len(elements) > 0
  /\ \A k \in 1..Len(elements) :
       /\ IsFinite(elements[k].a)
       /\ IsFinite(elements[k].a_prime)
       /\ 0 < elements[k].a
       /\ elements[k].a < Lit(1)
       /\ 0 < elements[k].a_prime

\* The step is a call of compute_aerodynamic_performance that returns, right
\* after one that returned, at the same omega > 0 and a larger wind speed.
IntegratedAgainAtHigherWind ==
  /\ IntegratedResults
  /\ last'.call = "compute_aerodynamic_performance"
  /\ last'.raised = "no"
  /\ last.op.omega > 0
  /\ last'.op.omega = last.op.omega
  /\ last'.op.wind_speed > last.op.wind_speed

\* C23: with the stations' induction factors fixed at 0 < a < 1 and a' > 0 and
\* a fixed omega > 0, compute_aerodynamic_performance returns a strictly
\* larger thrust and a strictly larger power for a larger wind speed.
C23_ThrustAndPowerGrowWithWind ==
  [][(InductionInRange /\ IntegratedAgainAtHigherWind) =>
       /\ last'.total_thrust > last.total_thrust
       /\ last'.total_power > last.total_power]_vars

\* The integration returned finite, positive thrust and power at the highest
\* wind speed over stations with 0 < a < 1 and a' > 0.
C23_Witness ==
  /\ IntegratedResults
  /\ InductionInRange
  /\ last.op.wind_speed = 2000
  /\ last.op.omega > 0
  /\ IsFinite(last.total_thrust)
  /\ IsFinite(last.total_power)
  /\ last.total_thrust > 0
  /\ last.total_power > 0

\* ------------------------------------------------------------------------
\* BladeElementTheory: the point query and the duplicated methods
\* ------------------------------------------------------------------------
\* BladeElementTheory.calculate_solidity(operational_conditions, chord, r):
\* the solidity it returns; nothing is stored.
BETCalculateSolidity(op, chord, r) ==
  IF r = 0 THEN Lit(1)
  ELSE LET solidity == FDiv(op.num_blades * chord, FMul(FMul(Lit(2), Pi), r))
       IN  IF FLess(Lit(1), solidity) THEN Lit(1) ELSE solidity

\* BladeElementTheory.compute_element_induction_factors: its first pass calls
\* self.calculate_solidity(operational_conditions=None, ...), which reads
\* None.num_blades; without a pass it returns the guesses.
BETComputeElementInductionFactors(a, a_prime, max_iterations) ==
  IF max_iterations >= 1
  THEN [raised |-> "AttributeError", a |-> None, a_prime |-> None]
  ELSE [raised |-> "no", a |-> a, a_prime |-> a_prime]

\* el put behind every element of the sorted list whose r is not larger.
RECURSIVE InsertByRadius(_, _)
InsertByRadius(el, sorted) ==
  IF Len(sorted) = 0 THEN << el >>
  ELSE IF sorted[1].r <= el.r THEN << sorted[1] >> \o InsertByRadius(el, Tail(sorted))
  ELSE << el >> \o sorted

\* sorted(elements[:k], key=lambda x: x.r)
RECURSIVE SortedPrefix(_, _)
SortedPrefix(els, k) ==
  IF k = 0 THEN << >> ELSE InsertByRadius(els[k], SortedPrefix(els, k - 1))

\* sorted(self.blade.elements, key=lambda x: x.r), a new list.
SortedElements(els) == SortedPrefix(els, Len(els))

\* A query that would sort the blade's own list.
ElementsSortedInPlace(els) == SortedElements(els)

\* self.blade.elements after sorted(self.blade.elements, ...): sorted() builds a
\* new list and the blade's list keeps its order.
ElementsAfterSorted(els) == els

\* np.searchsorted(radii, r): how many radii are smaller than r.
SearchSorted(sorted, r) == Cardinality({i \in 1..Len(sorted) : sorted[i].r < r})

\* (1 - w) * x1 + w * x2
Blend(w, x1, x2) == FAdd(FMul(FSub(Lit(1), w), x1), FMul(w, x2))

\* A bracket that always takes the station at idx alone.
BracketNearestOnly(sorted, idx, r) ==
  IF idx = 0 THEN [elem1 |-> sorted[1], elem2 |-> sorted[1], w |-> Lit(1)]
  ELSE IF idx >= Len(sorted)
  THEN [elem1 |-> sorted[Len(sorted)], elem2 |-> sorted[Len(sorted)], w |-> Lit(1)]
  ELSE [elem1 |-> sorted[idx + 1], elem2 |-> sorted[idx + 1], w |-> Lit(1)]

\* Lines 101-113: the bracketing elements and the weight, for idx elements
\* below r.
Bracket(sorted, idx, r) ==
  IF idx = 0 THEN [elem1 |-> sorted[1], elem2 |-> sorted[1], w |-> Lit(1)]
  ELSE IF idx >= Len(sorted)
  THEN [elem1 |-> sorted[Len(sorted)], elem2 |-> sorted[Len(sorted)], w |-> Lit(1)]
  ELSE [elem1 |-> sorted[idx], elem2 |-> sorted[idx + 1],
        w |-> FDiv(FSub(r, sorted[idx].r), FSub(sorted[idx + 1].r, sorted[idx].r))]

\* Lines 89-122: the locals of the point query before its loop.
QueryLocals(br, radius, op, p) ==
  [a |-> p.a_guess, a_prime |-> p.a_prime_guess, r |-> radius,
   elem1 |-> br.elem1, elem2 |-> br.elem2, w |-> br.w,
   chord |-> Blend(br.w, br.elem1.chord, br.elem2.chord),
   twist_rad |-> Radians(Blend(br.w, br.elem1.twist, br.elem2.twist)),
   pitch_rad |-> PitchRad(op),
   phi |-> None, alpha_deg |-> None, Cl |-> None, Cd |-> None, Cn |-> None,
   Ct |-> None, it |-> 0, converged |-> FALSE]

\* Lines 149-157: the update, the convergence test and the assignment.
QueryAssign(loc, p, upd) ==
  [loc EXCEPT !.it = loc.it + 1,
              !.converged = Converged(loc.a, loc.a_prime, upd.a_new, upd.a_prime_new,
                                      p.tolerance),
              !.a = IF Converged(loc.a, loc.a_prime, upd.a_new, upd.a_prime_new,
                                 p.tolerance)
                    THEN loc.a ELSE upd.a_new,
              !.a_prime = IF Converged(loc.a, loc.a_prime, upd.a_new, upd.a_prime_new,
                                       p.tolerance)
                          THEN loc.a_prime ELSE upd.a_prime_new]

\* Lines 141-151: the force coefficients, the solidity and the update.
QueryForces(loc, op, p, Cn, Ct) ==
  QueryAssign([loc EXCEPT !.Cn = Cn, !.Ct = Ct], p,
              InductionUpdate(loc.phi, BETCalculateSolidity(op, loc.chord, loc.r), Cn, Ct))

\* Lines 137-143: Cl and Cd blended between the two elements.
QueryBlend(loc, op, p, Cl, Cd) ==
  QueryForces([loc EXCEPT !.Cl = Cl, !.Cd = Cd], op, p,
              FAdd(FMul(Cl, Cos(loc.phi)), FMul(Cd, Sin(loc.phi))),
              FSub(FMul(Cl, Sin(loc.phi)), FMul(Cd, Cos(loc.phi))))

\* Lines 133-139: the coefficients of the two elements at the angle of attack.
QueryCoefficients(loc, op, p, c1, c2) ==
  QueryBlend(loc, op, p, Blend(loc.w, c1[1], c2[1]), Blend(loc.w, c1[2], c2[2]))

\* Lines 129-135: the angle of attack in degrees.
QueryAngle(loc, op, p, alpha_deg) ==
  QueryCoefficients([loc EXCEPT !.alpha_deg = alpha_deg], op, p,
                    GetAeroCoeffsFromElement(loc.elem1, alpha_deg),
                    GetAeroCoeffsFromElement(loc.elem2, alpha_deg))

\* Lines 126-131: the flow angle of the pass.
QueryFlow(loc, op, p, phi) ==
  QueryAngle([loc EXCEPT !.phi = phi], op, p,
             Degrees(FSub(phi, FAdd(loc.pitch_rad, loc.twist_rad))))

\* One pass of the loop of lines 125-157.
QueryPass(loc, op, p) == QueryFlow(loc, op, p, FlowAngle(loc.a, loc.a_prime, op, loc.r))

\* The loop of lines 125-157 run to its end.
RECURSIVE QueryLoop(_, _, _)
QueryLoop(loc, op, p) ==
  IF LoopOver(loc, p) THEN loc ELSE QueryLoop(QueryPass(loc, op, p), op, p)

\* The exception the point query ends with: sorted_elements[0] of an empty
\* blade; alpha_deg unbound when the loop makes no pass.
QueryRaises(els, p) ==
  IF Len(els) = 0 THEN "IndexError"
  ELSE IF p.max_iterations < 1 THEN "UnboundLocalError"
  ELSE "no"

\* BladeElementTheory.compute_induction_factors(radius, ...): the locals it
\* returns from.
ComputeInductionFactorsAt(els, radius, op, p) ==
  QueryLoop(QueryLocals(Bracket(SortedElements(els),
                                SearchSorted(SortedElements(els), radius), radius),
                        radius, op, p),
            op, p)

\* A blade built by hand with its stations out of radial order.
UnsortedBlade ==
  << BladeElement(3000, 5000, 700, 2), BladeElement(1000, 15000, 500, 1),
     BladeElement(2000, 10000, 600, 1) >>

\* Radii asked of the point query: below the stations, on them, between them
\* and beyond the tip.
QueryRadii == {500, 1000, 1500, 2000, 2500, 3000, 3500}

\* The operating conditions of the point queries and of the solves made
\* between them.
QueryConditions == {CalculateAngularVelocity(v, Rho, NumBlades) : v \in {1500, 3000}}

\* a_guess, a_prime_guess, tolerance, max_iterations of a point query.
QueryParams ==
  [a_guess : {0}, a_prime_guess : {0}, tolerance : {5}, max_iterations : {1, MaxIter}]

InitQuery ==
  /\ elements \in {BladeFiles[b] : b \in 1..Len(BladeFiles)} \cup {UnsortedBlade}
  /\ R = None
  /\ sol = Idle
  /\ last = Outcome("init", "no", NoCondition)
  /\ analyzer = PerformanceAnalyzer(0, 3000, 3, NumBlades, Rho)
  /\ calc_calls = 0

\* The dictionary the point query returns, with the chord, the twist and the
\* weight it worked with, and the arguments of the call.
QueryReturned(loc, radius, op, p) ==
  [radius |-> radius, p |-> p, a |-> loc.a, a_prime |-> loc.a_prime,
   alpha |-> loc.alpha_deg, cl |-> loc.Cl, cd |-> loc.Cd, phi |-> Degrees(loc.phi),
   Cn |-> loc.Cn, Ct |-> loc.Ct,
   chord |-> loc.chord, twist_rad |-> loc.twist_rad, w |-> loc.w]
    @@ Outcome("BET.compute_induction_factors", "no", op)

\* The point query ended with exception exc.
QueryRaised(exc, radius, op, p) ==
  [radius |-> radius, p |-> p] @@ Outcome("BET.compute_induction_factors", exc, op)

\* BladeElementTheory(blade).compute_induction_factors(radius, a_guess,
\* a_prime_guess, max_iterations, tolerance, characteristics, op)
ComputeInductionFactorsAtCall(radius, op, p) ==
  /\ sol.pc = "idle"
  /\ elements' = ElementsAfterSorted(elements)
  /\ last' = IF QueryRaises(elements, p) # "no"
             THEN QueryRaised(QueryRaises(elements, p), radius, op, p)
             ELSE QueryReturned(ComputeInductionFactorsAt(elements, radius, op, p),
                                radius, op, p)
  /\ UNCHANGED << R, sol, analyzer, calc_calls >>

\* What BladeElementTheory.calculate_solidity returned for the chord and r of
\* element k.
BETSolidityReturned(k, op, value) ==
  [k |-> k, value |-> value] @@ Outcome("BET.calculate_solidity", "no", op)

\* BET.calculate_solidity(operational_conditions=op, chord=element.chord,
\* r=element.r) for element k of the blade.
BETCalculateSolidityCall(k, op) ==
  /\ sol.pc = "idle"
  /\ k \in 1..Len(elements)
  /\ last' = BETSolidityReturned(k, op,
               BETCalculateSolidity(op, elements[k].chord, elements[k].r))
  /\ UNCHANGED << elements, R, sol, analyzer, calc_calls >>

\* What BladeElementTheory.compute_element_induction_factors did for element
\* k: the exception, or the (a, a') it returned.
BETFactorsReturned(k, op, p, res) ==
  [k |-> k, p |-> p, a |-> res.a, a_prime |-> res.a_prime]
    @@ Outcome("BET.compute_element_induction_factors", res.raised, op)

\* BET.compute_element_induction_factors(a, a_prime, wind_speed, omega, r,
\* chord, phi, Cn, Ct, tolerance, max_iterations) with the r and chord of
\* element k.
BETComputeElementInductionFactorsCall(k, op, p) ==
  /\ sol.pc = "idle"
  /\ k \in 1..Len(elements)
  /\ last' = BETFactorsReturned(k, op, p,
               BETComputeElementInductionFactors(p.a_guess, p.a_prime_guess,
                                                 p.max_iterations))
  /\ UNCHANGED << elements, R, sol, analyzer, calc_calls >>

NextQuery ==
  \/ \E b \in 1..Len(BladeFiles) : LoadFromFile(b)
  \/ \E op \in QueryConditions, p \in QueryParams : SolveBlade(op, p)
  \/ \E radius \in QueryRadii, op \in QueryConditions, p \in QueryParams :
       ComputeInductionFactorsAtCall(radius, op, p)
  \/ \E k \in 1..MaxStations, op \in QueryConditions : BETCalculateSolidityCall(k, op)
  \/ \E k \in 1..MaxStations, op \in QueryConditions, p \in QueryParams :
       BETComputeElementInductionFactorsCall(k, op, p)

SpecQuery == InitQuery /\ [][NextQuery]_vars

\* ------------------------------------------------------------------------
\* Properties of the point query and of the duplicated methods
\* ------------------------------------------------------------------------
\* The point query was the last call and returned its dictionary.
QueryDone == last.call = "BET.compute_induction_factors" /\ last.raised = "no"

\* Station k holds the a and a' that BladeElement.compute_induction_factors
\* leaves on it for the operating condition op and the parameters p.
StationSolvedFor(k, op, p) ==
  /\ elements[k].a # None
  /\ elements[k].a_prime # None
  /\ elements[k].a = SolveElement(AsConstructed(elements[k]), op, p).a
  /\ elements[k].a_prime = SolveElement(AsConstructed(elements[k]), op, p).a_prime

\* C24: a point query at the radius of a station, with the operating point,
\* guesses, tolerance and max_iterations of the station's solve, returns the a
\* and a' that the station solve left on that station.
C24_QueryAtStationMatchesSolve ==
  QueryDone =>
    \A k \in 1..Len(elements) :
      (elements[k].r = last.radius /\ StationSolvedFor(k, last.op, last.p)) =>
        /\ last.a = elements[k].a
        /\ last.a_prime = elements[k].a_prime

\* x is, to the last digit kept, the blend of x1 (at r1) and x2 (at r2) at r:
\* (1 - w) * x1 + w * x2 with w = (r - r1) / (r2 - r1).
IsBlend(x, x1, x2, r, r1, r2) ==
  Abs(x * (r2 - r1) - (x1 * (r2 - r) + x2 * (r - r1))) <= 2 * (r2 - r1)

\* Stations i and j are the nearest below and above r: no station lies
\* strictly between them.
Adjacent(i, j) ==
  /\ elements[i].r < elements[j].r
  /\ \A k \in 1..Len(elements) :
       ~(elements[i].r < elements[k].r /\ elements[k].r < elements[j].r)

\* Station k is the one at the smallest radius (the first such in the list),
\* or one at the largest radius.
IsEndStation(k, radius) ==
  \/ /\ radius <= elements[k].r
     /\ \A j \in 1..Len(elements) : elements[k].r <= elements[j].r
  \/ /\ radius > elements[k].r
     /\ \A j \in 1..Len(elements) : elements[j].r <= elements[k].r

\* The chord, twist, Cl and Cd of the query are those of station k alone.
UsesStationAlone(k) ==
  /\ last.chord = elements[k].chord
  /\ last.twist_rad = Radians(elements[k].twist)
  /\ last.cl = GetAeroCoeffsFromElement(elements[k], last.alpha)[1]
  /\ last.cd = GetAeroCoeffsFromElement(elements[k], last.alpha)[2]

\* The chord, twist, Cl and Cd of the query are the blend of stations i and j.
UsesBlendOf(i, j) ==
  /\ IsBlend(last.chord, elements[i].chord, elements[j].chord,
             last.radius, elements[i].r, elements[j].r)
  /\ \E twist \in (Blend(last.w, elements[i].twist, elements[j].twist) - 2)
                    ..(Blend(last.w, elements[i].twist, elements[j].twist) + 2) :
       /\ IsBlend(twist, elements[i].twist, elements[j].twist,
                  last.radius, elements[i].r, elements[j].r)
       /\ Abs(last.twist_rad - Radians(twist)) <= 1
  /\ IsBlend(last.cl, GetAeroCoeffsFromElement(elements[i], last.alpha)[1],
             GetAeroCoeffsFromElement(elements[j], last.alpha)[1],
             last.radius, elements[i].r, elements[j].r)
  /\ IsBlend(last.cd, GetAeroCoeffsFromElement(elements[i], last.alpha)[2],
             GetAeroCoeffsFromElement(elements[j], last.alpha)[2],
             last.radius, elements[i].r, elements[j].r)

\* C25: a point query at a radius strictly between two adjacent station radii
\* r1 < r < r2 works with chord, twist and (Cl, Cd) blended as
\* (1 - w) * station1 + w * station2, w = (r - r1) / (r2 - r1), the stations
\* being the nearest below and above r by radius whatever the list order; at
\* or below the smallest station radius, or above the largest, it works with
\* the nearest end station's chord, twist and polar alone.
C25_BracketAndBlend ==
  QueryDone =>
    /\ \A i, j \in 1..Len(elements) :
         (Adjacent(i, j) /\ elements[i].r < last.radius /\ last.radius < elements[j].r)
           => UsesBlendOf(i, j)
    /\ ((\A k \in 1..Len(elements) : last.radius <= elements[k].r)
          \/ (\A k \in 1..Len(elements) : last.radius > elements[k].r))
         => \E k \in 1..Len(elements) : IsEndStation(k, last.radius) /\ UsesStationAlone(k)

\* A query between two stations of a blade listed out of radial order, whose
\* chords and twists differ.
C25_Witness ==
  /\ QueryDone
  /\ elements[1].r > elements[2].r
  /\ \E i, j \in 1..Len(elements) :
       /\ Adjacent(i, j)
       /\ elements[i].r < last.radius
       /\ last.radius < elements[j].r
       /\ elements[i].chord # elements[j].chord
       /\ last.chord # elements[i].chord
       /\ last.chord # elements[j].chord

\* ------------------------------------------------------------------------
\* The stations of one compute_induction_factors_blade call, solved in any
\* order
\* ------------------------------------------------------------------------
\* The body of `for element in self.elements` (Blade lines 89-92) is followed
\* station by station, each station at its own position: the stations may be
\* taken up in any order and their passes interleaved.
OrderConditions == {CalculateAngularVelocity(v, Rho, NumBlades) : v \in WindSpeeds \ {0}}

OrderParams ==
  [a_guess : {0, 100}, a_prime_guess : {0}, tolerance : {5}, max_iterations : {MaxIter}]

\* A solve that takes its axial guess from the station before it in the list,
\* when that station holds a result.
StationGuessFromNeighbour(els, k, p) ==
  IF k > 1 /\ els[k - 1].a # None
  THEN [p EXCEPT !.a_guess = els[k - 1].a]
  ELSE p

\* The a_guess, a_prime_guess, max_iterations and tolerance that station k is
\* solved with: those of the call itself (line 92).
StationGuess(els, k, p) == p

\* No call is running.
NoStations ==
  [pc |-> "idle", op |-> NoCondition, p |-> NoParams, before |-> << >>, st |-> << >>]

\* Station k has not been taken up yet.
Todo == [pc |-> "todo", loc |-> NoLocals]

InitOrder ==
  /\ elements \in {BladeFiles[b] : b \in 1..Len(BladeFiles)}
  /\ R = None
  /\ sol = NoStations
  /\ last = Outcome("init", "no", NoCondition)
  /\ analyzer = PerformanceAnalyzer(0, 3000, 3, NumBlades, Rho)
  /\ calc_calls = 0

\* blade.load_from_file between two calls.
OrderLoadFromFile(b) ==
  /\ sol.pc = "idle"
  /\ elements' = BladeFiles[b]
  /\ last' = Outcome("load_from_file", "no", NoCondition)
  /\ sol' = NoStations
  /\ UNCHANGED << R, analyzer, calc_calls >>

\* compute_induction_factors_blade is called: every dr is computed (or the
\* call raises) and the stations wait to be solved.
OrderCall(op, p) ==
  /\ sol.pc = "idle"
  /\ IF DiscretizationRaises(elements) # "no"
     THEN /\ last' = Outcome("compute_induction_factors_blade",
                             DiscretizationRaises(elements), op)
          /\ UNCHANGED << elements, sol >>
     ELSE /\ elements' = CalculateElementDiscretizationLengths(elements)
          /\ sol' = [pc |-> "stations", op |-> op, p |-> p, before |-> elements,
                     st |-> [k \in 1..Len(elements) |-> Todo]]
          /\ last' = Outcome("compute_induction_factors_blade", "no", op)
  /\ UNCHANGED << R, analyzer, calc_calls >>

\* Lines 90-92 for station k, up to the call of
\* compute_element_induction_factors; a station without aerodynamic data is
\* done at once.
StationBegin(k) ==
  /\ sol.pc = "stations"
  /\ sol.st[k].pc = "todo"
  /\ LET el == [elements[k] EXCEPT !.solidity = CalculateSolidity(elements[k], sol.op)]
     IN  /\ elements' = [elements EXCEPT ![k] = el]
         /\ R' = MaxRadius(elements)
         /\ sol' = [sol EXCEPT !.st[k] =
                      IF HasAeroData(el)
                      THEN [pc |-> "loop",
                            loc |-> SolveBegin(el, sol.op,
                                               StationGuess(elements, k, sol.p))]
                      ELSE [pc |-> "done", loc |-> NoLocals]]
  /\ UNCHANGED << last, analyzer, calc_calls >>

\* One pass of station k's loop.
StationIterate(k) ==
  /\ sol.pc = "stations"
  /\ sol.st[k].pc = "loop"
  /\ ~LoopOver(sol.st[k].loc, sol.p)
  /\ sol' = [sol EXCEPT !.st[k].loc = IterStep(sol.st[k].loc, elements[k], sol.op, sol.p)]
  /\ UNCHANGED << elements, R, last, analyzer, calc_calls >>

\* Station k's loop is over and its results are stored on it.
StationStore(k) ==
  /\ sol.pc = "stations"
  /\ sol.st[k].pc = "loop"
  /\ LoopOver(sol.st[k].loc, sol.p)
  /\ elements' = [elements EXCEPT ![k] = SolveStore(elements[k], sol.st[k].loc, sol.op)]
  /\ sol' = [sol EXCEPT !.st[k] = [pc |-> "done", loc |-> NoLocals]]
  /\ UNCHANGED << R, last, analyzer, calc_calls >>

\* Every station is done: the call returns self.elements.
OrderReturn ==
  /\ sol.pc = "stations"
  /\ \A k \in 1..Len(elements) : sol.st[k].pc = "done"
  /\ sol' = [sol EXCEPT !.pc = "idle"]
  /\ UNCHANGED << elements, R, last, analyzer, calc_calls >>

NextOrder ==
  \/ \E b \in 1..Len(BladeFiles) : OrderLoadFromFile(b)
  \/ \E op \in OrderConditions, p \in OrderParams : OrderCall(op, p)
  \/ \E k \in 1..Len(elements) : StationBegin(k)
  \/ \E k \in 1..Len(elements) : StationIterate(k)
  \/ \E k \in 1..Len(elements) : StationStore(k)
  \/ OrderReturn

SpecOrder == InitOrder /\ [][NextOrder]_vars

\* The per-station outputs of a solve.
StationOutputs(el) ==
  << el.solidity, el.a, el.a_prime, el.phi, el.alpha, el.cl, el.cd, el.Cn, el.Ct >>

\* C26: whatever the order in which the stations of a call are taken up and
\* however their passes interleave, every station that is done holds the
\* solidity, a, a', phi, alpha, Cl, Cd, Cn, Ct that the call leaves on it when
\* it solves the stations one after the other in list order.
C26_AnyOrderSameValues ==
  \A k \in 1..Len(sol.st) :
    sol.st[k].pc = "done" =>
      StationOutputs(elements[k])
        = StationOutputs(ComputeInductionFactorsBlade(sol.before, sol.op, sol.p)[k])

\* Station 2 took its passes and finished while station 1, begun before it,
\* was still in its loop, and station 3 had not been taken up.
C26_Witness ==
  /\ sol.pc = "stations"
  /\ Len(sol.st) = 3
  /\ sol.st[2].pc = "done"
  /\ sol.st[1].pc = "loop"
  /\ sol.st[1].loc.it >= 1
  /\ sol.st[3].pc = "todo"
  /\ elements[2].a # None
  /\ elements[2].a # sol.p.a_guess

\* Station k holds the results of a solve.
HoldsResults(k) == elements[k].a # None /\ HasAeroData(elements[k])

\* x and y agree to the last digits kept.
Close(x, y) == IsFinite(x) /\ IsFinite(y) /\ Abs(x - y) <= 3

\* The stored Cn and Ct are those of the stored phi, Cl and Cd.
ForcesOfStoredAngle(el) ==
  /\ Close(el.Cn, FAdd(FMul(el.cl, Cos(el.phi)), FMul(el.cd, Sin(el.phi))))
  /\ Close(el.Ct, FSub(FMul(el.cl, Sin(el.phi)), FMul(el.cd, Cos(el.phi))))

\* The stored alpha is the angle, in degrees, at which the polar gives the
\* stored Cl and Cd.
AlphaInDegrees(el) ==
  /\ Close(el.cl, GetAeroCoeffsFromElement(el, el.alpha)[1])
  /\ Close(el.cd, GetAeroCoeffsFromElement(el, el.alpha)[2])

\* C27: after compute_induction_factors_blade returned, every solved station
\* holds alpha in degrees, and its phi, Cl, Cd, Cn, Ct are those of one
\* iterate: Cn = Cl cos(phi) + Cd sin(phi) and Ct = Cl sin(phi) - Cd cos(phi)
\* for the phi it holds.
C27_StoredValuesOfOneIterate ==
  Solved =>
    \A k \in 1..Len(elements) :
      HoldsResults(k) => AlphaInDegrees(elements[k]) /\ ForcesOfStoredAngle(elements[k])

\* Element k with the solidity calculate_solidity gives it for op.
WithSolidity(k, op) == [elements[k] EXCEPT !.solidity = CalculateSolidity(elements[k], op)]

\* What BladeElement.compute_element_induction_factors returns for element k
\* from the guesses of p and the phi, Cn, Ct of those guesses.
ElementFactors(k, op, p) ==
  RunLoop(SolveBegin(WithSolidity(k, op), op, p), WithSolidity(k, op), op, p)

\* C28: the BladeElementTheory methods that duplicate BladeElement methods
\* return what the BladeElement method returns for equal inputs, and neither
\* raises: calculate_solidity for an element's chord and r, and
\* compute_element_induction_factors for an element's r and chord and the
\* same guesses, tolerance and max_iterations.
C28_DuplicatesAgree ==
  /\ last.call = "BET.calculate_solidity" =>
       /\ last.raised = "no"
       /\ last.value = CalculateSolidity(elements[last.k], last.op)
  /\ (last.call = "BET.compute_element_induction_factors"
        /\ HasAeroData(elements[last.k])) =>
       /\ last.raised = "no"
       /\ last.a = ElementFactors(last.k, last.op, last.p).a
       /\ last.a_prime = ElementFactors(last.k, last.op, last.p).a_prime

\* The stations are listed in strictly ascending r.
StrictlyAscending(els) == \A i \in 1..(Len(els) - 1) : els[i].r < els[i + 1].r

\* C29: on a blade of two or more stations listed in strictly ascending r,
\* calculate_element_discretization_lengths leaves every station a dr > 0 and
\* the dr of all stations add up to r_last - r_first.
C29_LengthsTileTheSpan ==
  (Discretized /\ Len(elements) >= 2 /\ StrictlyAscending(elements)) =>
    /\ \A i \in 1..Len(elements) : IsFinite(elements[i].dr) /\ elements[i].dr > 0
    /\ SumFrom(elements, "dr", 1, 0) = elements[Len(elements)].r - elements[1].r

\* Three stations in ascending order with unequal gaps got their lengths.
C29_Witness ==
  /\ Discretized
  /\ Len(elements) = 3
  /\ StrictlyAscending(elements)
  /\ elements[3].r - elements[2].r # elements[2].r - elements[1].r
  /\ elements[2].dr > elements[1].dr

\* The step is a point query (returning or raising).
PointQueryStep == last'.call = "BET.compute_induction_factors" /\ last' # last

\* C30: a point query leaves the blade as it was: every field of every
\* element, the order of blade.elements and blade.R are the same after the
\* call as before it, whatever the query radius.
C30_QueryLeavesBladeUnchanged ==
  [][PointQueryStep => (elements' = elements /\ R' = R)]_vars

\* A query returned on a blade listed out of radial order whose stations hold
\* the results of a solve.
C30_Witness ==
  /\ QueryDone
  /\ Len(elements) = 3
  /\ elements[1].r > elements[2].r
  /\ \A k \in 1..Len(elements) : elements[k].a # None
  /\ R # None

====
